---- MODULE Spec2Model ----
(***************************************************************************)
(* Field discovery, group synthesis, merge and fill-back of the content    *)
(* script (src/src/content_script/fieldDetection.ts and                    *)
(* src/src/content_script.ts), as a state machine over a small live        *)
(* document.                                                               *)
(***************************************************************************)
EXTENDS Integers, Sequences, FiniteSets, TLC

VARIABLES
    doc,                  \* the live document: a sequence of elements, in document order
    fieldIdCounter,       \* module-level counter of generateFieldId
    pc,                   \* position of the running message handler
    filterEmpty,          \* detectFormFields' filterEmpty argument of the running scan
    allFields,            \* detectFormFields: allFields
    fieldMap,             \* detectFormFields: fieldMap (id -> descriptor)
    processedRadioIds,    \* detectFormFields: processedRadioIds
    processedCheckboxIds, \* detectFormFields: processedCheckboxIds
    replaced,             \* history: <<recorded, later>> pairs of every replacement in the merge
    dropped,              \* history: <<recorded, later>> pairs of every later descriptor dropped
    returned,             \* history: one record per finished detectFormFields call
    emptyFields,          \* fillForm: the descriptors of the empty-only re-scan
    config,               \* fillForm: [uploadResume, resumeData] of the message
    uploadSuccess,        \* fillForm: uploadSuccess
    aiResponses,          \* fillForm: aiResponses.responses
    respIdx,              \* fillForm: number of AI responses the fill loop has processed
    result,               \* fillForm: the FormFillingResult being built
    fillLog,              \* history: one record per fillFormField call
    events,               \* history: notifications dispatched on the document, oldest first
    response,             \* what sendResponse was called with ("none" before)
    page,                 \* the page beside the form: progress indicators, dropdown menus
    wait,                 \* waitForAutofillComplete: the promise, its watcher and its timer
    expand,               \* expandAllDropdowns: the promise, its watcher and its timer
    extract,              \* extractCustomDropdownOptions: the expansion attempts of one call
    drops,                \* custom-dropdown fills: their watchers, timers and option clicks
    sent,                 \* history: the sendResponse calls made for the message in hand
    worker                \* the background worker: the AI service, its sessions, its operations

vars == <<doc, fieldIdCounter, pc, filterEmpty, allFields, fieldMap, processedRadioIds,
          processedCheckboxIds, replaced, dropped, returned, emptyFields, config,
          uploadSuccess, aiResponses, respIdx, result, fillLog, events, response,
          page, wait, expand, extract, drops, sent, worker>>

\* the state of the flows that have a specification of their own
workVars == <<extract, drops, sent, worker>>

asyncVars == <<page, wait, expand, workVars>>

\* the same without the count of responses
quietVars == <<page, wait, expand, extract, drops, worker>>

scanVars == <<filterEmpty, allFields, fieldMap, processedRadioIds, processedCheckboxIds,
              replaced, dropped>>

fillVars == <<emptyFields, config, uploadSuccess, aiResponses, respIdx, result, fillLog,
              events, response>>

(***************************************************************************)
(* Bounds of the model.                                                    *)
(***************************************************************************)
NElems == 3        \* elements in a scanned document
MaxScans == 2      \* detectFormFields messages handled in a row
MaxResponses == 2  \* AI responses in a fillForm batch

(***************************************************************************)
(* Strings: JavaScript's String methods used by the code.                  *)
(***************************************************************************)
LowerLetters == "abcdefghijklmnopqrstuvwxyz"
UpperLetters == "ABCDEFGHIJKLMNOPQRSTUVWXYZ"
Digits == "0123456789"

Char(s, i) == SubSeq(s, i, i)

IndexOf(c, alphabet) ==
    IF \E k \in 1..Len(alphabet) : Char(alphabet, k) = c
    THEN CHOOSE k \in 1..Len(alphabet) : Char(alphabet, k) = c
    ELSE 0

LowerChar(c) == IF IndexOf(c, UpperLetters) # 0 THEN Char(LowerLetters, IndexOf(c, UpperLetters)) ELSE c
UpperChar(c) == IF IndexOf(c, LowerLetters) # 0 THEN Char(UpperLetters, IndexOf(c, LowerLetters)) ELSE c

RECURSIVE toLowerCase(_)
toLowerCase(s) ==
    IF s = "" THEN "" ELSE LowerChar(Char(s, 1)) \o toLowerCase(SubSeq(s, 2, Len(s)))

RECURSIVE trimStart(_)
trimStart(s) == IF s # "" /\ Char(s, 1) = " " THEN trimStart(SubSeq(s, 2, Len(s))) ELSE s

RECURSIVE trimEnd(_)
trimEnd(s) == IF s # "" /\ Char(s, Len(s)) = " " THEN trimEnd(SubSeq(s, 1, Len(s) - 1)) ELSE s

trim(s) == trimEnd(trimStart(s))

includes(s, sub) ==
    \E k \in 1..(Len(s) + 1 - Len(sub)) : SubSeq(s, k, k + Len(sub) - 1) = sub

startsWith(s, prefix) == Len(prefix) <= Len(s) /\ SubSeq(s, 1, Len(prefix)) = prefix

IsDigit(c) == IndexOf(c, Digits) # 0

\* the digits of s from position i on, as a number continuing acc
RECURSIVE DigitsValue(_, _, _)
DigitsValue(s, i, acc) ==
    IF i <= Len(s) /\ IsDigit(Char(s, i))
    THEN DigitsValue(s, i + 1, 10 * acc + (IndexOf(Char(s, i), Digits) - 1))
    ELSE acc

\* parseInt(s): leading whitespace skipped, an optional sign, then the longest
\* run of digits; NaN when there is no digit.
parseInt(s) ==
    LET t == trimStart(s)
        neg == t # "" /\ Char(t, 1) = "-"
        u == IF t # "" /\ Char(t, 1) \in {"-", "+"} THEN SubSeq(t, 2, Len(t)) ELSE t
    IN  IF u # "" /\ IsDigit(Char(u, 1))
        THEN [nan |-> FALSE, n |-> IF neg THEN 0 - DigitsValue(u, 1, 0) ELSE DigitsValue(u, 1, 0)]
        ELSE [nan |-> TRUE, n |-> 0]

\* name.replace(/[_-]/g, " ").replace(/\b\w/g, l => l.toUpperCase())
RECURSIVE TitleCase(_, _)
TitleCase(s, atBoundary) ==
    IF s = "" THEN ""
    ELSE LET c == IF Char(s, 1) \in {"_", "-"} THEN " " ELSE Char(s, 1)
             word == IndexOf(c, LowerLetters) # 0 \/ IndexOf(c, UpperLetters) # 0
                     \/ IsDigit(c)
         IN  (IF word /\ atBoundary THEN UpperChar(c) ELSE c)
             \o TitleCase(SubSeq(s, 2, Len(s)), ~word)

\* checkbox.name.replace(/\[\d*\]$/, '')
StripIndex(name) ==
    IF /\ name # ""
       /\ Char(name, Len(name)) = "]"
       /\ \E k \in 1..(Len(name) - 1) :
             /\ Char(name, k) = "["
             /\ \A j \in (k + 1)..(Len(name) - 1) : IsDigit(Char(name, j))
    THEN LET k == CHOOSE k \in 1..(Len(name) - 1) :
                     /\ Char(name, k) = "["
                     /\ \A j \in (k + 1)..(Len(name) - 1) : IsDigit(Char(name, j))
         IN  SubSeq(name, 1, k - 1)
    ELSE name

\* a double quote inside an id makes `label[for="${id}"]` an invalid selector:
\* document.querySelector throws a SyntaxError
HasQuote(s) == \E k \in 1..Len(s) : Char(s, k) = "\""

Undefined == "<undefined>"

\* `x || undefined`
OrUndefined(s) == IF s = "" THEN Undefined ELSE s

(***************************************************************************)
(* The document.  An element is a record; `parent` is the index of the     *)
(* enclosing widget container (0: none), `fieldset` the enclosing fieldset *)
(* (0: none), `labelFor` the text of a <label for=id> naming the element's *)
(* own id, `aria` its aria-label (such elements sit inside a <form>).      *)
(***************************************************************************)
BaseEl ==
    [tag |-> "input", type |-> "text", role |-> "", cls |-> "", id |-> "", name |-> "",
     labelFor |-> "", aria |-> "", disabled |-> FALSE, hidden |-> FALSE,
     checked |-> FALSE, value |-> "", parent |-> 0, fieldset |-> 0, multiple |-> FALSE,
     options |-> <<>>, size |-> 0, menu |-> <<>>, opens |-> FALSE]

\* the fieldsets of the modelled documents: class, id and legend text
Fieldsets ==
    <<[cls |-> "", id |-> "", legend |-> "Skills"],
      [cls |-> "", id |-> "", legend |-> ""]>>

FormRoles == {"textbox", "combobox", "checkbox", "radio", "switch", "slider", "listbox"}

isFormFieldElement(e) ==
    IF e.disabled THEN FALSE
    ELSE IF e.hidden THEN FALSE
    ELSE IF e.tag = "input" THEN TRUE
    ELSE IF e.tag \in {"textarea", "select"} THEN TRUE
    ELSE IF e.role \in FormRoles THEN TRUE
    ELSE IF e.name # "" \/ e.aria # "" THEN TRUE
    ELSE e.cls \in {"select-shell", "select__control"}

determineFieldType(e) ==
    IF e.role = "combobox" \/ e.cls \in {"select-shell", "select__control"}
    THEN "custom-dropdown"
    ELSE IF e.tag = "input"
         THEN IF e.type \in {"checkbox", "radio", "file", "hidden", "range", "color",
                             "search", "number", "date", "datetime-local", "time",
                             "month", "week", "email", "tel", "url", "password"}
              THEN e.type
              ELSE "text"
    ELSE IF e.tag = "textarea" THEN "textarea"
    ELSE IF e.tag = "select" THEN (IF e.multiple THEN "multi-select" ELSE "select")
    ELSE IF e.role = "textbox" THEN "text"
    ELSE IF e.role \in {"checkbox", "switch"} THEN "checkbox"
    ELSE IF e.role = "radio" THEN "radio"
    ELSE IF e.role = "slider" THEN "range"
    ELSE IF e.role = "listbox" THEN "select"
    ELSE "text"

\* getFieldLabel: [threw, label].  The lookup of label[for="id"] comes first and
\* throws on an id that breaks the selector.
getFieldLabel(e) ==
    IF e.id # "" /\ HasQuote(e.id) THEN [threw |-> TRUE, label |-> ""]
    ELSE IF e.id # "" /\ e.labelFor # "" THEN [threw |-> FALSE, label |-> trim(e.labelFor)]
    ELSE IF e.aria # "" THEN [threw |-> FALSE, label |-> trim(e.aria)]
    ELSE IF e.name # "" THEN [threw |-> FALSE, label |-> TitleCase(e.name, TRUE)]
    ELSE [threw |-> FALSE, label |-> "Unlabeled Field"]

\* getFieldDescription: the legend of the enclosing fieldset (no aria-describedby
\* and no description-class element in the modelled documents)
getFieldDescription(e) ==
    IF e.fieldset # 0 THEN Fieldsets[e.fieldset].legend ELSE ""

\* generateFieldId: the id returned after the counter ctr was incremented
generateFieldId(ctr) == "ai-applier-field-" \o ToString(ctr + 1)

Indexes(d) == [i \in 1..Len(d) |-> i]

\* querySelectorAll: the matching elements' indexes in document order
Matching(d, Test(_)) == SelectSeq(Indexes(d), LAMBDA i : Test(d[i]))

\* container.querySelector('.select__input, input[role="combobox"], input'):
\* the first input inside the container, 0 when there is none
InnerInput(d, c) ==
    IF \E j \in 1..Len(d) : d[j].parent = c /\ d[j].tag = "input"
    THEN CHOOSE j \in 1..Len(d) :
            /\ d[j].parent = c /\ d[j].tag = "input"
            /\ \A k \in 1..(j - 1) : ~(d[k].parent = c /\ d[k].tag = "input")
    ELSE 0

SetId(d, i, id) == [d EXCEPT ![i].id = id]

(***************************************************************************)
(* Group synthesis: groupRadioButtons and groupCheckboxes.  Both return    *)
(* [threw, fields, ctr]; nothing in them catches an error.                 *)
(***************************************************************************)
Descriptor(id, name, label, type, value, options, el, isGroup, description, disabled) ==
    [id |-> id, name |-> name, label |-> label, type |-> type, value |-> value,
     options |-> options, el |-> el, isGroup |-> isGroup, description |-> description,
     disabled |-> disabled]

IsGroupedRadio(e) == e.tag = "input" /\ e.type = "radio" /\ ~e.disabled /\ e.name # ""

\* the keys of a Map filled in the order of idxs: each key once, in first-insertion order
RECURSIVE KeysInOrder(_, _, _)
KeysInOrder(key, idxs, acc) ==
    IF idxs = <<>> THEN acc
    ELSE LET k == key[Head(idxs)]
         IN  KeysInOrder(key, Tail(idxs),
                         IF \E j \in 1..Len(acc) : acc[j] = k THEN acc ELSE Append(acc, k))

\* one option per member control, in document order
MemberOption(e, i) ==
    [value |-> e.value,
     label |-> IF e.id # "" /\ trim(e.labelFor) # "" THEN trim(e.labelFor) ELSE e.value,
     selected |-> e.checked, id |-> e.id, element |-> i]

\* the options taken from the last member to the first
MemberOptionsReversed(d, members) ==
    [k \in 1..Len(members) |->
        MemberOption(d[members[Len(members) + 1 - k]], members[Len(members) + 1 - k])]

MemberOptions(d, members) == [k \in 1..Len(members) |-> MemberOption(d[members[k]], members[k])]

\* document.querySelector(`label[for="${member.id}"]`) throws for some member
OptionsThrow(d, members) == \E k \in 1..Len(members) : HasQuote(d[members[k]].id)

RadioGroupLabel(e) ==
    LET l0 == getFieldLabel(e).label
    IN  IF (l0 = "" \/ l0 = "Unlabeled Field") /\ e.fieldset # 0
           /\ Fieldsets[e.fieldset].legend # ""
        THEN trim(Fieldsets[e.fieldset].legend)
        ELSE l0

RECURSIVE RadioGroupsFrom(_, _, _)
RadioGroupsFrom(d, names, acc) ==
    IF names = <<>> \/ acc.threw THEN acc
    ELSE LET name == Head(names)
             radios == Matching(d, LAMBDA e : IsGroupedRadio(e) /\ e.name = name)
             id == generateFieldId(acc.ctr)
             first == d[radios[1]]
             threw == getFieldLabel(first).threw \/ OptionsThrow(d, radios)
             field == Descriptor(id, name, RadioGroupLabel(first), "radio-group", Undefined,
                                 MemberOptions(d, radios), 0, TRUE,
                                 getFieldDescription(first), FALSE)
         IN  RadioGroupsFrom(d, Tail(names),
                 [threw |-> threw,
                  fields |-> IF threw THEN acc.fields ELSE Append(acc.fields, field),
                  ctr |-> acc.ctr + 1])

groupRadioButtons(d, ctr) ==
    LET radios == Matching(d, IsGroupedRadio)
        names == KeysInOrder([i \in 1..Len(d) |-> d[i].name], radios, <<>>)
    IN  RadioGroupsFrom(d, names, [threw |-> FALSE, fields |-> <<>>, ctr |-> ctr])

IsCheckbox(e) == e.tag = "input" /\ e.type = "checkbox"

\* the group key groupCheckboxes finds for checkbox i ("" when it finds none)
CheckboxGroupKey(d, i) ==
    LET e == d[i]
        inFieldset == {j \in 1..Len(d) : IsCheckbox(d[j]) /\ d[j].fieldset = e.fieldset}
        baseName == StripIndex(e.name)
        matching == {j \in 1..Len(d) :
                        IsCheckbox(d[j]) /\ startsWith(d[j].name, baseName) /\ ~d[j].disabled}
    IN  IF e.fieldset # 0 /\ Cardinality(inFieldset) > 1
        THEN "fieldset-" \o Fieldsets[e.fieldset].cls \o "-" \o Fieldsets[e.fieldset].id
        ELSE IF e.name # "" /\ Cardinality(matching) > 1
        THEN "array-" \o baseName
        ELSE ""

CheckboxGroupLabel(d, i) ==
    LET e == d[i]
        inFieldset == {j \in 1..Len(d) : IsCheckbox(d[j]) /\ d[j].fieldset = e.fieldset}
    IN  IF e.fieldset # 0 /\ Cardinality(inFieldset) > 1
        THEN (IF trim(Fieldsets[e.fieldset].legend) # ""
              THEN trim(Fieldsets[e.fieldset].legend) ELSE "Checkbox Group")
        ELSE TitleCase(StripIndex(e.name), TRUE)

RECURSIVE CheckboxGroupsFrom(_, _, _, _)
CheckboxGroupsFrom(d, keys, grouped, acc) ==
    IF keys = <<>> \/ acc.threw THEN acc
    ELSE LET key == Head(keys)
             members == SelectSeq(grouped, LAMBDA i : CheckboxGroupKey(d, i) = key)
         IN  IF Len(members) < 2
             THEN CheckboxGroupsFrom(d, Tail(keys), grouped, acc)
             ELSE LET id == generateFieldId(acc.ctr)
                      threw == OptionsThrow(d, members)
                      field == Descriptor(id, Undefined, CheckboxGroupLabel(d, members[1]),
                                          "checkbox-group", Undefined,
                                          MemberOptions(d, members), 0, TRUE,
                                          getFieldDescription(d[members[1]]), FALSE)
                  IN  CheckboxGroupsFrom(d, Tail(keys), grouped,
                          [threw |-> threw,
                           fields |-> IF threw THEN acc.fields ELSE Append(acc.fields, field),
                           ctr |-> acc.ctr + 1])

groupCheckboxes(d, ctr) ==
    LET grouped == Matching(d, LAMBDA e : IsCheckbox(e) /\ ~e.disabled)
        withKey == SelectSeq(grouped, LAMBDA i : CheckboxGroupKey(d, i) # "")
        keys == KeysInOrder([i \in 1..Len(d) |-> CheckboxGroupKey(d, i)], withKey, <<>>)
    IN  CheckboxGroupsFrom(d, keys, withKey, [threw |-> FALSE, fields |-> <<>>, ctr |-> ctr])

(***************************************************************************)
(* The detection passes.  A pass runs over a record                        *)
(*   [doc, ctr, fields, processedIds, abort]                               *)
(* (the live document, fieldIdCounter, the pass's fields array, its        *)
(* processedIds set, and whether the current selector's loop was left by   *)
(* an error that the selector's try/catch caught).                         *)
(***************************************************************************)
Sel(kind, v) == [kind |-> kind, v |-> v]

\* the modelled elements carry no tabindex, contenteditable or aria-haspopup attribute
Matches(sel, e) ==
    CASE sel.kind = "tag" -> e.tag = sel.v
      [] sel.kind = "role" -> e.role = sel.v
      [] sel.kind = "class" -> e.cls = sel.v
      [] OTHER -> FALSE

PassStart(d, ctr) ==
    [doc |-> d, ctr |-> ctr, fields |-> <<>>, processedIds |-> {}, abort |-> FALSE]

\* the descriptor the generic passes build for element i of d
ElementField(d, i, type, options) ==
    Descriptor(d[i].id, OrUndefined(d[i].name), getFieldLabel(d[i]).label, type,
               OrUndefined(d[i].value), options, i, FALSE, getFieldDescription(d[i]),
               d[i].disabled)

FocusableSelectors ==
    <<Sel("tag", "input"), Sel("tag", "textarea"), Sel("tag", "select"),
      Sel("role", "combobox"), Sel("role", "textbox"), Sel("role", "listbox"),
      Sel("role", "checkbox"), Sel("role", "radio"), Sel("attr", "contenteditable"),
      Sel("attr", "tabindex"), Sel("class", "select-shell"),
      Sel("class", "select__control"), Sel("attr", "aria-haspopup")>>

FocusableVisit(m, i) ==
    LET e == m.doc[i]
        fresh == e.id = ""
        elementId == IF fresh THEN generateFieldId(m.ctr) ELSE e.id
        ctr1 == IF fresh THEN m.ctr + 1 ELSE m.ctr
        inner == InnerInput(m.doc, i)
        target == IF (e.role = "combobox" \/ e.cls \in {"select-shell", "select__control"})
                     /\ inner # 0 /\ isFormFieldElement(m.doc[inner])
                  THEN inner ELSE i
        d1 == IF m.doc[target].id = "" THEN SetId(m.doc, target, elementId) ELSE m.doc
        type == determineFieldType(d1[target])
        field == ElementField(d1, target, type, <<>>)
    IN  IF ~isFormFieldElement(e) THEN m
        ELSE IF elementId \in m.processedIds THEN [m EXCEPT !.ctr = ctr1]
        ELSE IF getFieldLabel(d1[target]).threw
        THEN [m EXCEPT !.ctr = ctr1, !.doc = d1, !.abort = TRUE]
        ELSE [m EXCEPT !.ctr = ctr1, !.doc = d1,
                       !.fields = Append(m.fields, field),
                       !.processedIds = m.processedIds \cup {d1[target].id}]

RECURSIVE FocusableEach(_, _)
FocusableEach(m, idxs) ==
    IF idxs = <<>> \/ m.abort THEN m
    ELSE FocusableEach(FocusableVisit(m, Head(idxs)), Tail(idxs))

RECURSIVE FocusableSelectorsFrom(_, _)
FocusableSelectorsFrom(m, sels) ==
    IF sels = <<>> THEN m
    ELSE LET idxs == Matching(m.doc, LAMBDA e : Matches(Head(sels), e))
             m1 == FocusableEach(m, idxs)
         IN  FocusableSelectorsFrom([m1 EXCEPT !.abort = FALSE], Tail(sels))

detectFocusableFormFields(d, ctr) == FocusableSelectorsFrom(PassStart(d, ctr), FocusableSelectors)

TabOrderSelectors ==
    <<Sel("tag", "input"), Sel("tag", "textarea"), Sel("tag", "select"),
      Sel("attr", "tabindex"), Sel("role", "combobox"), Sel("role", "textbox"),
      Sel("attr", "contenteditable")>>

\* the loop body shared by detectByTabOrder and detectAccessibilityFields
ElementVisit(m, i) ==
    LET e == m.doc[i]
        fresh == e.id = ""
        elementId == IF fresh THEN generateFieldId(m.ctr) ELSE e.id
        ctr1 == IF fresh THEN m.ctr + 1 ELSE m.ctr
        d1 == IF fresh THEN SetId(m.doc, i, elementId) ELSE m.doc
        field == ElementField(d1, i, determineFieldType(d1[i]), <<>>)
    IN  IF ~isFormFieldElement(e) THEN m
        ELSE IF elementId \in m.processedIds THEN [m EXCEPT !.ctr = ctr1]
        ELSE IF getFieldLabel(d1[i]).threw
        THEN [m EXCEPT !.ctr = ctr1, !.doc = d1, !.abort = TRUE]
        ELSE [m EXCEPT !.ctr = ctr1, !.doc = d1,
                       !.fields = Append(m.fields, field),
                       !.processedIds = m.processedIds \cup {d1[i].id}]

RECURSIVE ElementEach(_, _)
ElementEach(m, idxs) ==
    IF idxs = <<>> \/ m.abort THEN m
    ELSE ElementEach(ElementVisit(m, Head(idxs)), Tail(idxs))

RECURSIVE ElementSelectorsFrom(_, _)
ElementSelectorsFrom(m, sels) ==
    IF sels = <<>> THEN m
    ELSE LET idxs == Matching(m.doc, LAMBDA e : Matches(Head(sels), e))
             m1 == ElementEach(m, idxs)
         IN  ElementSelectorsFrom([m1 EXCEPT !.abort = FALSE], Tail(sels))

detectByTabOrder(d, ctr) == ElementSelectorsFrom(PassStart(d, ctr), TabOrderSelectors)

RoleSelectors ==
    <<Sel("role", "textbox"), Sel("role", "combobox"), Sel("role", "checkbox"),
      Sel("role", "radio"), Sel("role", "switch"), Sel("role", "slider"),
      Sel("role", "listbox")>>

\* the role selectors run under try/catch; the loop over the ARIA-attributed
\* elements inside forms does not, so an error there leaves the function
\* (abort stays set: the caller sees a thrown error)
detectAccessibilityFields(d, ctr) ==
    LET m1 == ElementSelectorsFrom(PassStart(d, ctr), RoleSelectors)
        formElements == Matching(m1.doc, LAMBDA e : e.aria # "")
    IN  ElementEach(m1, formElements)

DropdownSelectors ==
    <<Sel("role", "combobox"), Sel("class", "select-shell"),
      Sel("class", "select__control"), Sel("attr", "aria-haspopup=listbox"),
      Sel("attr", "aria-haspopup=true")>>

\* the one element of a singleton set; with a set {e(x) : x \in {v}} it names
\* the value v once for the whole of e
Only(S) == CHOOSE x \in S : TRUE

\* an option element of a widget's menu as the extraction reads it:
\* value = value attribute || data-value || id || text, label = text || value
MenuOption(item) ==
    [value |-> item.value, label |-> item.label, selected |-> item.selected, id |-> "",
     element |-> 0]

\* the option elements of element i that are visible; `opened` tells that
\* the widget has answered an expansion attempt by showing its menu
VisibleItems(d, i, opened) ==
    IF opened THEN d[i].menu ELSE SelectSeq(d[i].menu, LAMBDA item : item.shown)

\* the visible option elements under document.body, in document order
RECURSIVE BodyItems(_, _, _, _)
BodyItems(d, i, c, opened) ==
    IF i > Len(d) THEN <<>>
    ELSE VisibleItems(d, i, opened /\ i = c) \o BodyItems(d, i + 1, c, opened)

\* placeholder and empty options are skipped
IsPlaceholder(label) == label = "Select..." \/ label = "" \/ toLowerCase(label) = "none"

\* `if (!options.find(o => o.value === value && o.label === label)) options.push(...)`
RECURSIVE PushUnique(_, _)
PushUnique(options, items) ==
    IF items = <<>> THEN options
    ELSE LET item == Head(items)
             known == \E k \in 1..Len(options) :
                         options[k].value = item.value /\ options[k].label = item.label
         IN  PushUnique(IF IsPlaceholder(item.label) \/ known THEN options
                        ELSE Append(options, MenuOption(item)),
                        Tail(items))

\* extractVisibleOptions(container): the container first, then document.body
extractVisibleOptions(d, c, opened) ==
    PushUnique(<<>>, VisibleItems(d, c, opened) \o BodyItems(d, 1, c, opened))

\* extractCustomDropdownOptions(container): the options already visible are
\* pushed as they are found; with none visible the widget is expanded and
\* extractVisibleOptions reads what shows
extractCustomDropdownOptions(d, c) ==
    LET already == VisibleItems(d, c, FALSE)
    IN  IF already # <<>> THEN [k \in 1..Len(already) |-> MenuOption(already[k])]
        ELSE extractVisibleOptions(d, c, d[c].opens)

\* the context added when no option could be extracted: the container's
\* outerHTML (its first 1000 characters) behind a fixed prefix
DomContext(container) == "Dropdown container structure: <" \o container.tag \o ">"

\* `description ? description + ". " + contextInfo : contextInfo`
WithDomContext(description, container) ==
    IF description # "" THEN description \o ". " \o DomContext(container)
    ELSE DomContext(container)

CustomVisit(m, c) ==
    LET inner == InnerInput(m.doc, c)
        i == IF inner # 0 THEN inner ELSE c
        fresh == m.doc[i].id = ""
        elementId == IF fresh THEN generateFieldId(m.ctr) ELSE m.doc[i].id
        ctr1 == IF fresh THEN m.ctr + 1 ELSE m.ctr
        d1 == IF fresh THEN SetId(m.doc, i, elementId) ELSE m.doc
        field == Only({[ElementField(d1, i, "custom-dropdown", options) EXCEPT
                          !.description = IF options = <<>> THEN WithDomContext(@, m.doc[c])
                                          ELSE @]
                       : options \in {extractCustomDropdownOptions(m.doc, c)}})
    IN  IF ~isFormFieldElement(m.doc[c]) THEN m
        ELSE IF elementId \in m.processedIds THEN [m EXCEPT !.ctr = ctr1]
        ELSE IF getFieldLabel(d1[i]).threw
        THEN [m EXCEPT !.ctr = ctr1, !.doc = d1, !.abort = TRUE]
        ELSE [m EXCEPT !.ctr = ctr1, !.doc = d1,
                       !.fields = Append(m.fields, field),
                       !.processedIds = m.processedIds \cup {d1[i].id}]

RECURSIVE CustomEach(_, _)
CustomEach(m, idxs) ==
    IF idxs = <<>> \/ m.abort THEN m
    ELSE CustomEach(CustomVisit(m, Head(idxs)), Tail(idxs))

RECURSIVE CustomSelectorsFrom(_, _)
CustomSelectorsFrom(m, sels) ==
    IF sels = <<>> THEN m
    ELSE LET idxs == Matching(m.doc, LAMBDA e : Matches(Head(sels), e))
             m1 == CustomEach(m, idxs)
         IN  CustomSelectorsFrom([m1 EXCEPT !.abort = FALSE], Tail(sels))

detectCustomDropdowns(d, ctr) == CustomSelectorsFrom(PassStart(d, ctr), DropdownSelectors)

(***************************************************************************)
(* detectFormFields: the merge of the passes' descriptors into allFields   *)
(* and fieldMap.  A merge runs over [allFields, fieldMap, replaced,        *)
(* dropped]; the last two record what the merge did.                       *)
(***************************************************************************)
EmptyMap == [k \in {} |-> k]

Has(map, id) == id \in DOMAIN map

MapSet(map, id, field) == [k \in (DOMAIN map) \cup {id} |-> IF k = id THEN field ELSE map[k]]

\* allFields.findIndex(f => f.id === id), 0 when there is none
FindIndex(fields, id) ==
    IF \E k \in 1..Len(fields) : fields[k].id = id
    THEN CHOOSE k \in 1..Len(fields) :
            fields[k].id = id /\ \A j \in 1..(k - 1) : fields[j].id # id
    ELSE 0

Replace(ms, field, step) ==
    LET index == FindIndex(ms.allFields, field.id)
    IN  [ms EXCEPT !.fieldMap = MapSet(ms.fieldMap, field.id, field),
                   !.allFields = IF index > 0 THEN [ms.allFields EXCEPT ![index] = field]
                                 ELSE ms.allFields,
                   !.replaced = ms.replaced \cup
                       {[step |-> step, was |-> ms.fieldMap[field.id], now |-> field]}]

Drop(ms, field, step) ==
    [ms EXCEPT !.dropped = ms.dropped \cup
                   {[step |-> step, kept |-> ms.fieldMap[field.id], later |-> field]}]

Push(ms, field) ==
    [ms EXCEPT !.allFields = Append(ms.allFields, field),
               !.fieldMap = IF field.id # "" THEN MapSet(ms.fieldMap, field.id, field)
                            ELSE ms.fieldMap]

\* the later descriptor always wins
PrefersLaterAlways(field, existing) == TRUE

\* steps 2 and 4: "Keep the more specific type (custom-dropdown > text, etc.)"
PrefersLater(field, existing) ==
    field.type = "custom-dropdown" /\ existing.type # "custom-dropdown"

\* step 5: "Replace if existing is less specific"
PrefersCustom(field, existing) == existing.type # "custom-dropdown"

InGroup(field, pRadio, pCheckbox) ==
    field.id # "" /\ (field.id \in pRadio \/ field.id \in pCheckbox)

\* step 2 (focusable)
MergeUpgrading(ms, field, pRadio, pCheckbox, step) ==
    IF InGroup(field, pRadio, pCheckbox) THEN ms
    ELSE IF field.id # "" /\ Has(ms.fieldMap, field.id)
    THEN (IF PrefersLater(field, ms.fieldMap[field.id])
          THEN Replace(ms, field, step) ELSE Drop(ms, field, step))
    ELSE Push(ms, field)

\* step 4 (ARIA)
MergeAria(ms, field, pRadio, pCheckbox, step) ==
    IF InGroup(field, pRadio, pCheckbox) THEN ms
    ELSE IF field.id # "" /\ ~Has(ms.fieldMap, field.id) THEN Push(ms, field)
    ELSE IF field.id # "" /\ Has(ms.fieldMap, field.id)
    THEN (IF PrefersLater(field, ms.fieldMap[field.id])
          THEN Replace(ms, field, step) ELSE Drop(ms, field, step))
    ELSE ms

\* step 3 without the look at fieldMap
MergeKeepingNoDedup(ms, field, pRadio, pCheckbox, step) ==
    IF InGroup(field, pRadio, pCheckbox) THEN ms ELSE Push(ms, field)

\* step 3 (tab order)
MergeKeeping(ms, field, pRadio, pCheckbox, step) ==
    IF InGroup(field, pRadio, pCheckbox) THEN ms
    ELSE IF field.id # "" /\ ~Has(ms.fieldMap, field.id) THEN Push(ms, field)
    ELSE IF field.id # "" THEN Drop(ms, field, step)
    ELSE ms

\* step 5 (custom dropdowns): no look at the group members' ids
MergeCustom(ms, field, step) ==
    IF field.id # "" /\ Has(ms.fieldMap, field.id)
    THEN (IF PrefersCustom(field, ms.fieldMap[field.id])
          THEN Replace(ms, field, step) ELSE Drop(ms, field, step))
    ELSE Push(ms, field)

RECURSIVE MergeAll(_, _, _, _, _)
MergeAll(ms, fields, pRadio, pCheckbox, step) ==
    IF fields = <<>> THEN ms
    ELSE LET f == Head(fields)
             ms1 == CASE step = "focusable" -> MergeUpgrading(ms, f, pRadio, pCheckbox, step)
                      [] step = "aria" -> MergeAria(ms, f, pRadio, pCheckbox, step)
                      [] step = "taborder" -> MergeKeeping(ms, f, pRadio, pCheckbox, step)
                      [] OTHER -> MergeCustom(ms, f, step)
         IN  MergeAll(ms1, Tail(fields), pRadio, pCheckbox, step)

\* the ids of the member options of the group descriptors ("if (opt.id) ...add(opt.id)")
MemberIds(groups) ==
    UNION {{groups[g].options[k].id : k \in 1..Len(groups[g].options)} :
              g \in 1..Len(groups)} \ {""}

(***************************************************************************)
(* detectFormFields step 6: the legacy loops over input, textarea and      *)
(* select.  They run over [doc, ctr, ms, threw]; nothing catches an error. *)
(***************************************************************************)
SelectOptions(e) ==
    [k \in 1..Len(e.options) |->
        [value |-> e.options[k].value, label |-> e.options[k].text,
         selected |-> e.options[k].selected, id |-> "", element |-> 0]]

LegacyVisit(lm, i, pRadio, pCheckbox) ==
    LET e == lm.doc[i]
        fresh == e.id = ""
        id == IF fresh THEN generateFieldId(lm.ctr) ELSE e.id
        ctr1 == IF fresh THEN lm.ctr + 1 ELSE lm.ctr
        d1 == IF fresh THEN SetId(lm.doc, i, id) ELSE lm.doc
        type == IF e.tag = "input" THEN (IF e.type = "" THEN "text" ELSE e.type)
                ELSE IF e.tag = "textarea" THEN "textarea"
                ELSE IF e.multiple THEN "multi-select" ELSE "select"
        field == ElementField(d1, i, type, IF e.tag = "select" THEN SelectOptions(e) ELSE <<>>)
    IN  IF e.disabled THEN lm
        ELSE IF e.tag = "input" /\ e.type = "radio" /\ e.id \in pRadio THEN lm
        ELSE IF e.tag = "input" /\ e.type = "checkbox" /\ e.id \in pCheckbox THEN lm
        ELSE IF e.id # "" /\ Has(lm.ms.fieldMap, e.id) THEN lm
        ELSE IF getFieldLabel(d1[i]).threw
        THEN [lm EXCEPT !.ctr = ctr1, !.doc = d1, !.threw = TRUE]
        ELSE [lm EXCEPT !.ctr = ctr1, !.doc = d1,
                        !.ms = Push(lm.ms, field)]

RECURSIVE LegacyEach(_, _, _, _)
LegacyEach(lm, idxs, pRadio, pCheckbox) ==
    IF idxs = <<>> \/ lm.threw THEN lm
    ELSE LegacyEach(LegacyVisit(lm, Head(idxs), pRadio, pCheckbox), Tail(idxs),
                    pRadio, pCheckbox)

LegacyStep(d, ctr, ms, pRadio, pCheckbox) ==
    LET lm0 == [doc |-> d, ctr |-> ctr, ms |-> ms, threw |-> FALSE]
        lm1 == LegacyEach(lm0, Matching(d, LAMBDA e : e.tag = "input"), pRadio, pCheckbox)
        lm2 == LegacyEach(lm1, Matching(d, LAMBDA e : e.tag = "textarea"), pRadio, pCheckbox)
    IN  LegacyEach(lm2, Matching(d, LAMBDA e : e.tag = "select"), pRadio, pCheckbox)

(***************************************************************************)
(* The empty-only filter (isFieldEmpty, isFieldElementEmpty).              *)
(***************************************************************************)
\* document.getElementById(field.id) || document.querySelector(field.selector):
\* the index of the element, 0 when none is found
FieldElement(d, field) ==
    LET byId == {i \in 1..Len(d) : d[i].id = field.id}
        bySelector ==
            IF field.type = "radio-group"
            THEN {i \in 1..Len(d) : d[i].tag = "input" /\ d[i].type = "radio"
                                     /\ d[i].name = field.name}
            ELSE IF field.type = "checkbox-group"
            THEN (IF d[field.options[1].element].name = "" THEN {}
                  ELSE {i \in 1..Len(d) :
                           IsCheckbox(d[i])
                           /\ startsWith(d[i].name, d[field.options[1].element].name)})
            ELSE byId
        First(S) == CHOOSE i \in S : \A j \in S : i <= j
    IN  IF field.id # "" /\ byId # {} THEN First(byId)
        ELSE IF bySelector # {} THEN First(bySelector)
        ELSE 0

isFieldEmpty(field) ==
    IF field.disabled THEN FALSE
    ELSE IF field.value = Undefined THEN TRUE
    ELSE trim(field.value) = ""

\* select.value: the value of the first selected option, "" when none is selected
SelectValue(e) ==
    IF \E k \in 1..Len(e.options) : e.options[k].selected
    THEN e.options[CHOOSE k \in 1..Len(e.options) :
                      e.options[k].selected
                      /\ \A j \in 1..(k - 1) : ~e.options[j].selected].value
    ELSE ""

isFieldElementEmpty(d, i, fieldType) ==
    LET e == d[i]
        inner == InnerInput(d, i)
    IN  IF e.tag = "input"
        THEN (IF fieldType \in {"checkbox", "radio"} THEN ~e.checked ELSE trim(e.value) = "")
        ELSE IF e.tag = "textarea" THEN trim(e.value) = ""
        ELSE IF e.tag = "select" THEN SelectValue(e) = ""
        ELSE IF fieldType = "custom-dropdown" /\ inner # 0 THEN trim(d[inner].value) = ""
        ELSE TRUE

FilterEmpty(d, fields) ==
    SelectSeq(fields, LAMBDA f :
        /\ isFieldEmpty(f)
        /\ FieldElement(d, f) # 0
        /\ isFieldElementEmpty(d, FieldElement(d, f), f.type))

(***************************************************************************)
(* detectFormFields, step by step.  A scan runs over the record            *)
(*   [doc, ctr, allFields, fieldMap, pRadio, pCheckbox, replaced, dropped, *)
(*    threw]                                                               *)
(* and each step maps it to the next; threw is set by an error that no     *)
(* try/catch of fieldDetection.ts catches.                                 *)
(***************************************************************************)
ScanStart(d, ctr) ==
    [doc |-> d, ctr |-> ctr, allFields |-> <<>>, fieldMap |-> EmptyMap, pRadio |-> {},
     pCheckbox |-> {}, replaced |-> {}, dropped |-> {}, threw |-> FALSE]

MergeState(ss) ==
    [allFields |-> ss.allFields, fieldMap |-> ss.fieldMap, replaced |-> ss.replaced,
     dropped |-> ss.dropped]

WithMerge(ss, ms) ==
    [ss EXCEPT !.allFields = ms.allFields, !.fieldMap = ms.fieldMap,
               !.replaced = ms.replaced, !.dropped = ms.dropped]

RECURSIVE PushAll(_, _)
PushAll(ms, fields) ==
    IF fields = <<>> THEN ms ELSE PushAll(Push(ms, Head(fields)), Tail(fields))

\* step 1: group synthesis; the groups' member ids become the exclusion sets
StepGroups(ss) ==
    LET radioGroups == groupRadioButtons(ss.doc, ss.ctr)
        checkboxGroups == groupCheckboxes(ss.doc, radioGroups.ctr)
        ms == PushAll(PushAll(MergeState(ss), radioGroups.fields), checkboxGroups.fields)
    IN  IF radioGroups.threw THEN [ss EXCEPT !.ctr = radioGroups.ctr, !.threw = TRUE]
        ELSE IF checkboxGroups.threw
        THEN [ss EXCEPT !.ctr = checkboxGroups.ctr, !.threw = TRUE]
        ELSE [WithMerge(ss, ms) EXCEPT !.ctr = checkboxGroups.ctr,
                                       !.pRadio = MemberIds(radioGroups.fields),
                                       !.pCheckbox = MemberIds(checkboxGroups.fields)]

\* step 2
StepFocusable(ss) ==
    LET m == detectFocusableFormFields(ss.doc, ss.ctr)
        ms == MergeAll(MergeState(ss), m.fields, ss.pRadio, ss.pCheckbox, "focusable")
    IN  [WithMerge(ss, ms) EXCEPT !.doc = m.doc, !.ctr = m.ctr]

\* step 3
StepTabOrder(ss) ==
    LET m == detectByTabOrder(ss.doc, ss.ctr)
        ms == MergeAll(MergeState(ss), m.fields, ss.pRadio, ss.pCheckbox, "taborder")
    IN  [WithMerge(ss, ms) EXCEPT !.doc = m.doc, !.ctr = m.ctr]

\* step 4
StepAria(ss) ==
    LET m == detectAccessibilityFields(ss.doc, ss.ctr)
        ms == MergeAll(MergeState(ss), m.fields, ss.pRadio, ss.pCheckbox, "aria")
    IN  IF m.abort THEN [ss EXCEPT !.doc = m.doc, !.ctr = m.ctr, !.threw = TRUE]
        ELSE [WithMerge(ss, ms) EXCEPT !.doc = m.doc, !.ctr = m.ctr]

\* step 5
StepCustom(ss) ==
    LET m == detectCustomDropdowns(ss.doc, ss.ctr)
        ms == MergeAll(MergeState(ss), m.fields, ss.pRadio, ss.pCheckbox, "custom")
    IN  [WithMerge(ss, ms) EXCEPT !.doc = m.doc, !.ctr = m.ctr]

\* step 6
StepLegacy(ss) ==
    LET lm == LegacyStep(ss.doc, ss.ctr, MergeState(ss), ss.pRadio, ss.pCheckbox)
    IN  IF lm.threw THEN [ss EXCEPT !.doc = lm.doc, !.ctr = lm.ctr, !.threw = TRUE]
        ELSE [WithMerge(ss, lm.ms) EXCEPT !.doc = lm.doc, !.ctr = lm.ctr]

\* the value detectFormFields resolves with
FinalFields(ss, fe) == IF fe THEN FilterEmpty(ss.doc, ss.allFields) ELSE ss.allFields

\* steps 2 to 6, in the order detectFormFields runs them
LaterSteps == <<"focusable", "taborder", "aria", "custom", "legacy">>

RunStep(ss, step) ==
    CASE step = "focusable" -> StepFocusable(ss)
      [] step = "taborder" -> StepTabOrder(ss)
      [] step = "aria" -> StepAria(ss)
      [] step = "custom" -> StepCustom(ss)
      [] step = "legacy" -> StepLegacy(ss)

\* a thrown error ends the call: no step has a try/catch around it
RECURSIVE RunSteps(_, _)
RunSteps(ss, steps) ==
    IF steps = <<>> \/ ss.threw THEN ss
    ELSE Only({RunSteps(next, Tail(steps)) : next \in {RunStep(ss, Head(steps))}})

\* a whole call: [doc, ctr, threw, fields]
detectFormFields(d, ctr, fe) ==
    Only({[doc |-> ss.doc, ctr |-> ss.ctr, threw |-> ss.threw,
           fields |-> IF ss.threw THEN <<>> ELSE FinalFields(ss, fe)]
          : ss \in {RunSteps(StepGroups(ScanStart(d, ctr)), LaterSteps)}})

(***************************************************************************)
(* Fill-back: normalizeAIResponse and fillFormField.  A value is a string  *)
(* or a boolean: [kind, s, b].                                             *)
(***************************************************************************)
Str(s) == [kind |-> "string", s |-> s, b |-> FALSE]
Bool(b) == [kind |-> "boolean", s |-> "", b |-> b]

\* String(value)
String(v) == IF v.kind = "boolean" THEN (IF v.b THEN "true" ELSE "false") ELSE v.s

SelectionTypes == {"checkbox", "radio", "radio-group", "checkbox-group", "select", "multi-select"}

normalizeAIResponse(value, fieldType) ==
    LET strValue == trim(String(value))
    IN  IF value.kind = "boolean" THEN value
        ELSE IF fieldType \in SelectionTypes THEN Str(strValue)
        ELSE IF strValue = "" \/ strValue = "null" \/ strValue = "undefined" THEN Str("n/a")
        ELSE Str(strValue)

TextLikeTypes ==
    {"text", "email", "tel", "url", "password", "number", "date", "datetime-local", "time",
     "month", "week", "search", "color"}

Event(i, name) == [el |-> i, ev |-> name]

\* JSON.parse, on the texts the model feeds it: the literals, a number, or an
\* array of plain double-quoted strings.  [ok, array, items]
RECURSIVE JSONStrings(_, _)
JSONStrings(s, acc) ==
    \* s starts after '[' or ','; reads "text" then ',' or ']'
    IF Len(s) < 3 \/ Char(s, 1) # "\"" THEN [ok |-> FALSE, items |-> <<>>]
    ELSE LET closing == {k \in 2..Len(s) : Char(s, k) = "\""}
         IN  IF closing = {} THEN [ok |-> FALSE, items |-> <<>>]
             ELSE LET k == CHOOSE k \in closing : \A j \in closing : k <= j
                      item == SubSeq(s, 2, k - 1)
                      rest == SubSeq(s, k + 1, Len(s))
                  IN  IF rest = "]" THEN [ok |-> TRUE, items |-> Append(acc, item)]
                      ELSE IF rest # "" /\ Char(rest, 1) = ","
                      THEN JSONStrings(SubSeq(rest, 2, Len(rest)), Append(acc, item))
                      ELSE [ok |-> FALSE, items |-> <<>>]

JSONParse(s) ==
    IF s \in {"null", "true", "false"} THEN [ok |-> TRUE, array |-> FALSE, items |-> <<>>]
    ELSE IF s # "" /\ \A k \in 1..Len(s) : IsDigit(Char(s, k))
    THEN [ok |-> TRUE, array |-> FALSE, items |-> <<>>]
    ELSE IF s = "[]" THEN [ok |-> TRUE, array |-> TRUE, items |-> <<>>]
    ELSE IF s # "" /\ Char(s, 1) = "["
    THEN LET r == JSONStrings(SubSeq(s, 2, Len(s)), <<>>)
         IN  [ok |-> r.ok, array |-> r.ok, items |-> r.items]
    ELSE [ok |-> FALSE, array |-> FALSE, items |-> <<>>]

\* s.split(',')
RECURSIVE Split(_, _, _)
Split(s, cur, acc) ==
    IF s = "" THEN Append(acc, cur)
    ELSE IF Char(s, 1) = "," THEN Split(SubSeq(s, 2, Len(s)), "", Append(acc, cur))
    ELSE Split(SubSeq(s, 2, Len(s)), cur \o Char(s, 1), acc)

\* radio.checked = true: the browser unchecks the other radios of the same name
CheckRadio(d, i) ==
    [j \in 1..Len(d) |->
        IF j = i THEN [d[j] EXCEPT !.checked = TRUE]
        ELSE IF d[j].tag = "input" /\ d[j].type = "radio" /\ d[j].name = d[i].name
                /\ d[i].name # ""
        THEN [d[j] EXCEPT !.checked = FALSE]
        ELSE d[j]]

\* a fill runs over [doc, events, found]; each radio of idxs is checked and
\* notified (change, then click), in order
RECURSIVE CheckEach(_, _)
CheckEach(fm, idxs) ==
    IF idxs = <<>> THEN fm
    ELSE LET i == Head(idxs)
         IN  CheckEach([doc |-> CheckRadio(fm.doc, i),
                        events |-> fm.events \o <<Event(i, "change"), Event(i, "click")>>,
                        found |-> TRUE],
                       Tail(idxs))

Outcome(returns, threw, d, evs) == [returns |-> returns, threw |-> threw, doc |-> d, events |-> evs]

\* case "text" ... "color", and case "textarea"
\* v has the shape: d stands for a digit, h for a hexadecimal digit, any other
\* character for itself (the range checks on months, days, hours are left out)
Shaped(v, shape) ==
    /\ Len(v) = Len(shape)
    /\ \A k \in 1..Len(v) :
          CASE Char(shape, k) = "d" -> IsDigit(Char(v, k))
            [] Char(shape, k) = "h" ->
                  IsDigit(Char(v, k)) \/ IndexOf(LowerChar(Char(v, k)), "abcdef") # 0
            [] OTHER -> Char(v, k) = Char(shape, k)

\* a valid floating-point number, without fraction and exponent
IsValidNumber(v) ==
    LET u == IF v # "" /\ Char(v, 1) = "-" THEN SubSeq(v, 2, Len(v)) ELSE v
    IN  u # "" /\ \A k \in 1..Len(u) : IsDigit(Char(u, k))

\* `input.value = ...`: the setter keeps the string only as far as the
\* input's type allows (value sanitization of the input element)
SanitizeValue(e, v) ==
    CASE e.tag # "input" -> v
      [] e.type = "number" -> IF IsValidNumber(v) THEN v ELSE ""
      [] e.type = "date" -> IF Shaped(v, "dddd-dd-dd") THEN v ELSE ""
      [] e.type = "month" -> IF Shaped(v, "dddd-dd") THEN v ELSE ""
      [] e.type = "week" -> IF Shaped(v, "dddd-Wdd") THEN v ELSE ""
      [] e.type = "time" -> IF Shaped(v, "dd:dd") THEN v ELSE ""
      [] e.type = "datetime-local" -> IF Shaped(v, "dddd-dd-ddTdd:dd") THEN v ELSE ""
      [] e.type = "color" -> IF Shaped(v, "#hhhhhh") THEN toLowerCase(v) ELSE "#000000"
      [] e.type \in {"email", "url"} -> trim(v)
      [] OTHER -> v

FillText(d, field, normalizedValue) ==
    LET i == FieldElement(d, field)
    IN  IF i = 0 THEN Outcome(FALSE, FALSE, d, <<>>)
        ELSE Outcome(TRUE, FALSE,
                     [d EXCEPT ![i].value = SanitizeValue(d[i], String(normalizedValue))],
                     <<Event(i, "input"), Event(i, "change")>>)

\* case "checkbox"
FillCheckbox(d, field, normalizedValue) ==
    LET i == FieldElement(d, field)
        strValue == toLowerCase(String(normalizedValue))
        checked == IF normalizedValue.kind = "boolean" THEN normalizedValue.b
                   ELSE strValue = "true" \/ strValue = "yes"
    IN  IF i = 0 THEN Outcome(FALSE, FALSE, d, <<>>)
        ELSE Outcome(TRUE, FALSE, [d EXCEPT ![i].checked = checked],
                     <<Event(i, "change"), Event(i, "click")>>)

\* case "radio"
FillRadio(d, field, normalizedValue) ==
    LET valueStr == toLowerCase(String(normalizedValue))
        radioGroup == Matching(d, LAMBDA e : /\ e.tag = "input" /\ e.type = "radio"
                                              /\ field.name # Undefined /\ e.name = field.name
                                              /\ (toLowerCase(e.value) = valueStr
                                                  \/ e.id = field.id))
        fm == CheckEach([doc |-> d, events |-> <<>>, found |-> FALSE], radioGroup)
    IN  Outcome(TRUE, FALSE, fm.doc, fm.events)

\* case "radio-group" with the options compared by value alone
FillRadioGroupByValue(d, field, normalizedValue) ==
    LET valueStr == toLowerCase(String(normalizedValue))
        opts == field.options
        hit == SelectSeq([k \in 1..Len(opts) |-> k],
                         LAMBDA k : opts[k].element # 0
                                    /\ toLowerCase(opts[k].value) = valueStr)
        fm1 == CheckEach([doc |-> d, events |-> <<>>, found |-> FALSE],
                         [k \in 1..Len(hit) |-> opts[hit[k]].element])
    IN  IF ~fm1.found /\ valueStr # "" THEN Outcome(FALSE, FALSE, fm1.doc, fm1.events)
        ELSE Outcome(TRUE, FALSE, fm1.doc, fm1.events)

\* case "radio-group"
FillRadioGroup(d, field, normalizedValue) ==
    LET valueStr == toLowerCase(String(normalizedValue))
        opts == field.options
        hit == SelectSeq([k \in 1..Len(opts) |-> k],
                         LAMBDA k : opts[k].element # 0
                                    /\ (toLowerCase(opts[k].value) = valueStr
                                        \/ toLowerCase(opts[k].label) = valueStr))
        fm1 == CheckEach([doc |-> d, events |-> <<>>, found |-> FALSE],
                         [k \in 1..Len(hit) |-> opts[hit[k]].element])
        radioGroup == Matching(d, LAMBDA e : /\ e.tag = "input" /\ e.type = "radio"
                                              /\ e.name = field.name
                                              /\ toLowerCase(e.value) = valueStr)
        fm2 == IF ~fm1.found /\ field.name # Undefined /\ field.name # ""
               THEN CheckEach(fm1, radioGroup)
               ELSE fm1
    IN  IF ~fm2.found /\ valueStr # "" THEN Outcome(FALSE, FALSE, fm2.doc, fm2.events)
        ELSE Outcome(TRUE, FALSE, fm2.doc, fm2.events)

RECURSIVE CheckboxMembers(_, _, _)
CheckboxMembers(fm, opts, valueStrs) ==
    IF opts = <<>> THEN fm
    ELSE LET opt == Head(opts)
             shouldBeChecked ==
                 \E k \in 1..Len(valueStrs) :
                     valueStrs[k] = toLowerCase(opt.value) \/ valueStrs[k] = toLowerCase(opt.label)
         IN  CheckboxMembers(
                 IF opt.element = 0 THEN fm
                 ELSE [doc |-> [fm.doc EXCEPT ![opt.element].checked = shouldBeChecked],
                       events |-> IF shouldBeChecked
                                  THEN Append(fm.events, Event(opt.element, "change"))
                                  ELSE fm.events,
                       found |-> fm.found + (IF shouldBeChecked THEN 1 ELSE 0)],
                 Tail(opts), valueStrs)

\* case "checkbox-group": JSON.parse of a text that is JSON but no array of strings
\* makes selectedValues.map throw a TypeError
FillCheckboxGroup(d, field, normalizedValue) ==
    LET text == String(normalizedValue)
        json == JSONParse(text)
        selectedValues == IF json.ok THEN json.items
                          ELSE LET parts == Split(text, "", <<>>)
                               IN  [k \in 1..Len(parts) |-> trim(parts[k])]
        valueStrs == [k \in 1..Len(selectedValues) |-> toLowerCase(selectedValues[k])]
        fm == CheckboxMembers([doc |-> d, events |-> <<>>, found |-> 0], field.options,
                              valueStrs)
    IN  IF json.ok /\ ~json.array THEN Outcome(FALSE, TRUE, d, <<>>)
        ELSE IF fm.found = 0 /\ Len(valueStrs) > 0 /\ valueStrs[1] # ""
        THEN Outcome(FALSE, FALSE, fm.doc, fm.events)
        ELSE Outcome(TRUE, FALSE, fm.doc, fm.events)

\* Array.from(select.options).find(opt => opt.value === valueStr ||
\*     opt.text.toLowerCase().includes(valueStr.toLowerCase())): its index, 0 for undefined
FindOption(options, valueStr) ==
    LET hits == {k \in 1..Len(options) :
                    options[k].value = valueStr
                    \/ includes(toLowerCase(options[k].text), toLowerCase(valueStr))}
    IN  IF hits = {} THEN 0 ELSE CHOOSE k \in hits : \A j \in hits : k <= j

\* option.selected = true: a single select drops the other options' selection
SelectOption(e, k) ==
    [e EXCEPT !.options = [j \in 1..Len(e.options) |->
                              [e.options[j] EXCEPT !.selected =
                                  IF j = k THEN TRUE
                                  ELSE IF e.multiple THEN e.options[j].selected ELSE FALSE]]]

\* select.selectedIndex = index (zero-based): that option alone is selected
SetSelectedIndex(e, index) ==
    [e EXCEPT !.options = [j \in 1..Len(e.options) |->
                              [e.options[j] EXCEPT !.selected = (j = index + 1)]]]

\* case "select" and "multi-select"
FillSelect(d, field, normalizedValue) ==
    LET i == FieldElement(d, field)
        valueStr == String(normalizedValue)
        option == FindOption(d[i].options, valueStr)
        index == parseInt(valueStr)
    IN  IF i = 0 THEN Outcome(FALSE, FALSE, d, <<>>)
        ELSE IF option # 0
        THEN Outcome(TRUE, FALSE, [d EXCEPT ![i] = SelectOption(d[i], option)],
                     <<Event(i, "change")>>)
        ELSE IF ~index.nan /\ index.n >= 0 /\ index.n < Len(d[i].options)
        THEN Outcome(TRUE, FALSE, [d EXCEPT ![i] = SetSelectedIndex(d[i], index.n)],
                     <<Event(i, "change")>>)
        ELSE Outcome(FALSE, FALSE, d, <<>>)

\* case "custom-dropdown", up to the return: the container is clicked; the
\* option is picked later, by the mutation watcher or the 300 ms timer
FillCustomDropdown(d, field, normalizedValue) ==
    LET i == FieldElement(d, field)
    IN  IF i = 0 THEN Outcome(FALSE, FALSE, d, <<>>)
        ELSE Outcome(TRUE, FALSE, d, <<Event(i, "click")>>)

\* the body of fillFormField's try block
FillBody(d, field, value) ==
    LET normalizedValue == normalizeAIResponse(value, field.type)
    IN  CASE field.type \in TextLikeTypes \cup {"textarea"} -> FillText(d, field, normalizedValue)
          [] field.type = "checkbox" -> FillCheckbox(d, field, normalizedValue)
          [] field.type = "radio" -> FillRadio(d, field, normalizedValue)
          [] field.type = "radio-group" -> FillRadioGroup(d, field, normalizedValue)
          [] field.type = "checkbox-group" -> FillCheckboxGroup(d, field, normalizedValue)
          [] field.type \in {"select", "multi-select"} -> FillSelect(d, field, normalizedValue)
          [] field.type = "custom-dropdown" -> FillCustomDropdown(d, field, normalizedValue)
          [] OTHER -> Outcome(FALSE, FALSE, d, <<>>)

\* fillFormField without its try/catch: an error of the body reaches the caller
fillFormFieldNoCatch(d, field, value) ==
    LET r == FillBody(d, field, value)
    IN  [returns |-> r.returns, threw |-> r.threw, caught |-> FALSE,
         doc |-> r.doc, events |-> r.events]

\* try { ... } catch (error) { return false }: an error thrown in the body is
\* caught, what the body wrote before it stays
fillFormField(d, field, value) ==
    LET r == FillBody(d, field, value)
    IN  [returns |-> r.returns /\ ~r.threw, threw |-> FALSE, caught |-> r.threw,
         doc |-> r.doc, events |-> r.events]

(***************************************************************************)
(* The documents of the scan specification.                                *)
(***************************************************************************)
BadId == "x\"y"

RadioNoId   == [BaseEl EXCEPT !.type = "radio", !.name = "q", !.value = "yes"]
RadioWithId == [BaseEl EXCEPT !.type = "radio", !.name = "q", !.value = "no", !.id = "r1",
                              !.labelFor = "No", !.checked = TRUE]
RadioBadId  == [BaseEl EXCEPT !.type = "radio", !.name = "q", !.value = "maybe", !.id = BadId]
BoxInFieldset == [BaseEl EXCEPT !.type = "checkbox", !.value = "on", !.fieldset = 1]
BoxArrayName  == [BaseEl EXCEPT !.type = "checkbox", !.value = "on", !.name = "opt[]",
                                !.id = "c1"]
TextInput   == [BaseEl EXCEPT !.id = "t1", !.name = "email"]
AriaInput   == [BaseEl EXCEPT !.id = "t1", !.aria = "Phone", !.value = "555"]
HiddenInput == [BaseEl EXCEPT !.hidden = TRUE, !.value = "x"]
HiddenBadId == [BaseEl EXCEPT !.hidden = TRUE, !.id = BadId]
AriaBadId   == [BaseEl EXCEPT !.id = BadId, !.aria = "Bad"]
TextboxBadId == [BaseEl EXCEPT !.tag = "div", !.type = "", !.role = "textbox", !.id = BadId]
Combobox    == [BaseEl EXCEPT !.tag = "div", !.type = "", !.role = "combobox", !.id = "t1"]
Shell       == [BaseEl EXCEPT !.tag = "div", !.type = "", !.cls = "select-shell"]
ShellInput  == [BaseEl EXCEPT !.parent = 1]
\* a shell whose menu is rendered open, one entry listed twice
ShellOpen   == [Shell EXCEPT !.menu = <<[value |-> "us", label |-> "United States",
                                         selected |-> FALSE, shown |-> TRUE],
                                        [value |-> "co", label |-> "Colombia",
                                         selected |-> FALSE, shown |-> TRUE],
                                        [value |-> "us", label |-> "United States",
                                         selected |-> FALSE, shown |-> TRUE]>>]
\* a shell whose menu shows once the widget is expanded
ShellClosed == [Shell EXCEPT !.opens = TRUE,
                             !.menu = <<[value |-> "Select...", label |-> "Select...",
                                         selected |-> TRUE, shown |-> FALSE],
                                        [value |-> "yes", label |-> "Yes",
                                         selected |-> FALSE, shown |-> FALSE],
                                        [value |-> "yes", label |-> "Yes",
                                         selected |-> FALSE, shown |-> FALSE]>>]
Select      == [BaseEl EXCEPT !.tag = "select", !.type = "", !.id = "s1",
                   !.options = <<[value |-> "", text |-> "Choose", selected |-> TRUE],
                                 [value |-> "us", text |-> "United States", selected |-> FALSE]>>]

ScanElements ==
    {RadioNoId, RadioWithId, RadioBadId, BoxInFieldset, BoxArrayName, TextInput, AriaInput,
     HiddenInput, HiddenBadId, AriaBadId, TextboxBadId, Combobox, Shell, ShellOpen,
     ShellClosed, ShellInput, Select}

\* an element placed inside a container follows its container, which is a widget shell
WellFormed(d) ==
    \A i \in 1..Len(d) :
        d[i].parent # 0 => d[i].parent < i /\ d[d[i].parent].cls = "select-shell"

ScanDocs == {d \in [1..NElems -> ScanElements] : WellFormed(d)}

(***************************************************************************)
(* The detectFormFields message handler of content_script.ts, one action   *)
(* per step of detectFormFields.                                           *)
(***************************************************************************)
NoResult ==
    [success |-> FALSE, filledFields |-> 0, skippedFields |-> 0, errorFields |-> 0,
     errors |-> <<>>]

NoConfig == [uploadResume |-> FALSE, resumeData |-> FALSE]

\* no option extraction under way
ExtractIdle ==
    [state |-> "idle", container |-> 0, attempts |-> <<>>, opened |-> FALSE, finals |-> 0,
     options |-> <<>>]

\* no custom-dropdown fill made, no option node inserted by the page
DropsIdle == [fills |-> <<>>, listed |-> {}]

\* the operations the background worker is modelled to be asked for
Ops == {1, 2}

\* an operation that has not been asked for
OpIdle ==
    [pc |-> "idle", fields |-> <<>>, idx |-> 0, attempts |-> 0, base |-> 0, clone |-> 0,
     passes |-> <<>>, responses |-> <<>>, threw |-> FALSE]

\* BaseAIService after construction: currentSession = null (0), no session made
WorkerIdle ==
    [currentSession |-> 0, owner |-> <<>>, live |-> {}, ops |-> [o \in Ops |-> OpIdle]]

WorkIdle ==
    /\ extract = ExtractIdle
    /\ drops = DropsIdle
    /\ sent = 0
    /\ worker = WorkerIdle

\* no indicator shown, no menu present; no wait and no expansion under way
AsyncIdle ==
    /\ page = [pendingLayer |-> FALSE, spinner |-> FALSE, menus |-> 0, wrote |-> {}]
    /\ wait = [state |-> "idle", elapsed |-> 0, observer |-> FALSE, interval |-> FALSE,
               fields |-> <<>>]
    /\ expand = [state |-> "idle", resolved |-> FALSE, resolves |-> 0, observer |-> FALSE,
                 timer |-> "unset", clicked |-> 0]
    /\ WorkIdle

FillIdle ==
    /\ emptyFields = <<>>
    /\ config = NoConfig
    /\ uploadSuccess = FALSE
    /\ aiResponses = <<>>
    /\ respIdx = 0
    /\ result = NoResult
    /\ fillLog = <<>>
    /\ events = <<>>

Init ==
    /\ doc \in ScanDocs
    /\ fieldIdCounter = 0
    /\ pc = "idle"
    /\ filterEmpty = FALSE
    /\ allFields = <<>>
    /\ fieldMap = EmptyMap
    /\ processedRadioIds = {}
    /\ processedCheckboxIds = {}
    /\ replaced = {}
    /\ dropped = {}
    /\ returned = <<>>
    /\ response = "none"
    /\ FillIdle
    /\ AsyncIdle

\* the running scan, as the record the steps work on
Cur ==
    [doc |-> doc, ctr |-> fieldIdCounter, allFields |-> allFields, fieldMap |-> fieldMap,
     pRadio |-> processedRadioIds, pCheckbox |-> processedCheckboxIds,
     replaced |-> replaced, dropped |-> dropped, threw |-> FALSE]

Store(ss) ==
    /\ doc' = ss.doc
    /\ fieldIdCounter' = ss.ctr
    /\ allFields' = ss.allFields
    /\ fieldMap' = ss.fieldMap
    /\ processedRadioIds' = ss.pRadio
    /\ processedCheckboxIds' = ss.pCheckbox
    /\ replaced' = ss.replaced
    /\ dropped' = ss.dropped

\* a chain without .catch: an error of the .then callback answers nothing
SentAfterNoCatch(n, threw) == IF threw THEN n ELSE n + 1

\* .then(...).catch(...): the .then callback ends with sendResponse, and an
\* error thrown in it is answered by the .catch callback
SentAfter(n, threw) == n + 1

\* the handler's .catch: sendResponse({ fields: [] })
ScanStep(ss, next) ==
    /\ Store(ss)
    /\ IF ss.threw
       THEN /\ pc' = "idle"
            /\ returned' = Append(returned, [threw |-> TRUE, fields |-> <<>>])
            /\ response' = [fields |-> <<>>]
            /\ sent' = SentAfter(sent, TRUE)
       ELSE /\ pc' = next
            /\ UNCHANGED <<returned, response, sent>>
    /\ UNCHANGED <<quietVars, filterEmpty, emptyFields, config, uploadSuccess, aiResponses, respIdx,
                   result, fillLog, events>>

ReceiveDetect ==
    /\ pc = "idle"
    /\ Len(returned) < MaxScans
    /\ pc' = "groups"
    /\ Store(ScanStart(doc, fieldIdCounter))
    /\ filterEmpty' = FALSE
    /\ response' = "none"
    /\ sent' = 0
    /\ UNCHANGED <<quietVars, returned, emptyFields, config, uploadSuccess, aiResponses, respIdx,
                   result, fillLog, events>>

Groups    == pc = "groups" /\ ScanStep(StepGroups(Cur), "focusable")
Focusable == pc = "focusable" /\ ScanStep(StepFocusable(Cur), "taborder")
TabOrder  == pc = "taborder" /\ ScanStep(StepTabOrder(Cur), "aria")
Aria      == pc = "aria" /\ ScanStep(StepAria(Cur), "custom")
Custom    == pc = "custom" /\ ScanStep(StepCustom(Cur), "legacy")
Legacy    == pc = "legacy" /\ ScanStep(StepLegacy(Cur), "filter")

FinishScan ==
    /\ pc = "filter"
    /\ pc' = "idle"
    /\ returned' = Append(returned, [threw |-> FALSE, fields |-> FinalFields(Cur, filterEmpty)])
    /\ response' = [fields |-> FinalFields(Cur, filterEmpty)]
    /\ sent' = SentAfter(sent, FALSE)
    /\ UNCHANGED <<quietVars, doc, fieldIdCounter, scanVars, emptyFields, config, uploadSuccess,
                   aiResponses, respIdx, result, fillLog, events>>

Next ==
    \/ ReceiveDetect
    \/ Groups
    \/ Focusable
    \/ TabOrder
    \/ Aria
    \/ Custom
    \/ Legacy
    \/ FinishScan

Spec == Init /\ [][Next]_vars

(***************************************************************************)
(* The fillForm message handler of content_script.ts.  Its actions are the *)
(* stretches between two awaits: the initial scan, the resume upload, the  *)
(* settle wait, the empty-only re-scan, and the batch that starts when the *)
(* AI responses arrive (fill loop and sendResponse run without an await).  *)
(***************************************************************************)
\* a colour input is never without a value
TextLikeEl(t) ==
    [BaseEl EXCEPT !.type = t, !.id = "t1", !.name = "email",
                   !.value = IF t = "color" THEN "#000000" ELSE ""]
Textarea == [BaseEl EXCEPT !.tag = "textarea", !.type = "", !.id = "ta"]
CountrySelect ==
    [BaseEl EXCEPT !.tag = "select", !.type = "", !.id = "s1",
        !.options = <<[value |-> "", text |-> "Choose a country", selected |-> TRUE],
                      [value |-> "us", text |-> "United States", selected |-> FALSE],
                      [value |-> "co", text |-> "Colombia", selected |-> FALSE]>>]
MultiSelect ==
    [BaseEl EXCEPT !.tag = "select", !.type = "", !.id = "m1", !.multiple = TRUE,
        !.options = <<[value |-> "js", text |-> "JavaScript", selected |-> FALSE],
                      [value |-> "ts", text |-> "TypeScript", selected |-> FALSE]>>]
RadioEmpty == [BaseEl EXCEPT !.type = "radio", !.name = "q", !.id = "r0", !.labelFor = "None"]
RadioNo == [BaseEl EXCEPT !.type = "radio", !.name = "q", !.id = "r1", !.value = "no",
                          !.labelFor = "No"]
BoxAlpha == [BaseEl EXCEPT !.type = "checkbox", !.name = "opt[]", !.id = "c1",
                           !.labelFor = "Alpha"]
BoxBeta == [BaseEl EXCEPT !.type = "checkbox", !.name = "opt[]", !.id = "c2", !.value = "b",
                          !.labelFor = "Beta", !.checked = TRUE]
Dropdown == [BaseEl EXCEPT !.tag = "div", !.type = "", !.role = "combobox", !.id = "d1"]
FileInput == [BaseEl EXCEPT !.type = "file", !.id = "f1"]
LoneRadio == [BaseEl EXCEPT !.type = "radio", !.id = "r9"]
LoneCheckbox == [BaseEl EXCEPT !.type = "checkbox", !.id = "k1"]
RadioYes == [BaseEl EXCEPT !.type = "radio", !.name = "q", !.id = "r2", !.value = "yes",
                           !.labelFor = "Yes"]
BoxOn == [BaseEl EXCEPT !.type = "checkbox", !.id = "k2", !.value = "on"]
\* two widgets that insert their option nodes when they are opened
DropA == [BaseEl EXCEPT !.tag = "div", !.type = "", !.role = "combobox", !.id = "da",
                        !.opens = TRUE,
                        !.menu = <<[value |-> "yes", label |-> "Yes", selected |-> FALSE,
                                    shown |-> FALSE],
                                   [value |-> "no", label |-> "No", selected |-> FALSE,
                                    shown |-> FALSE]>>]
DropB == [BaseEl EXCEPT !.tag = "div", !.type = "", !.role = "combobox", !.id = "db",
                        !.opens = TRUE,
                        !.menu = <<[value |-> "remote", label |-> "Yes, remote",
                                    selected |-> FALSE, shown |-> FALSE],
                                   [value |-> "us", label |-> "United States",
                                    selected |-> FALSE, shown |-> FALSE]>>]

FillDocs ==
    {<<TextLikeEl(t), CountrySelect>> : t \in TextLikeTypes}
    \cup {<<Textarea, MultiSelect>>,
          <<RadioEmpty, RadioNo, BoxAlpha, BoxBeta>>,
          <<RadioEmpty, [RadioNo EXCEPT !.checked = TRUE], BoxAlpha, BoxBeta>>,
          <<RadioYes, RadioNo, BoxOn>>,
          <<DropA, DropB>>,
          <<Dropdown, FileInput, LoneRadio, LoneCheckbox>>}

\* the answers the AI side is modelled to give for a field of a type
OutputsFor(type) ==
    CASE type \in TextLikeTypes \cup {"textarea"} ->
             {Str(""), Str(" null "), Str("undefined"), Str(" Bob "), Str("42"),
              Str("2024-05-01"), Bool(TRUE)}
      [] type \in {"select", "multi-select"} ->
             {Str(""), Str("co"), Str("united"), Str("1"), Str("9"), Str("ts")}
      [] type = "checkbox-group" ->
             {Str(""), Str("null"), Str("[\"alpha\"]"), Str("b, zzz"), Str("zzz")}
      [] type = "radio-group" -> {Str(""), Str("NO"), Str("none"), Str("zzz")}
      [] type = "checkbox" -> {Bool(TRUE), Str("yes"), Str("")}
      [] type = "custom-dropdown" -> {Str(""), Str("x"), Str("Yes")}
      [] OTHER -> {Str(""), Str("x")}

\* the AIResponse records the background worker may answer with for `fields`,
\* one of them naming a field the scan did not return
ResponsesFor(fields) ==
    UNION {{[fieldId |-> fields[k].id, output |-> o] : o \in OutputsFor(fields[k].type)} :
              k \in 1..Len(fields)}
    \cup {[fieldId |-> "gone", output |-> Str("x")]}

\* emptyFields.find(f => f.id === fieldId): its index, 0 for undefined
FindField(fields, fieldId) == FindIndex(fields, fieldId)

\* the bookkeeping without the else branch of `if (field)`
CountNoSkip(res, fieldId, found, success) ==
    IF found
    THEN (IF success THEN [res EXCEPT !.filledFields = @ + 1]
          ELSE [res EXCEPT !.errorFields = @ + 1,
                           !.errors = Append(@, [fieldId |-> fieldId,
                                                 error |-> "Failed to fill field"])])
    ELSE res

\* the bookkeeping of one loop iteration; found is whether a descriptor matched
\* and success what fillFormField returned
Count(res, fieldId, found, success) ==
    IF found
    THEN (IF success THEN [res EXCEPT !.filledFields = @ + 1]
          ELSE [res EXCEPT !.errorFields = @ + 1,
                           !.errors = Append(@, [fieldId |-> fieldId,
                                                 error |-> "Failed to fill field"])])
    ELSE [res EXCEPT !.skippedFields = @ + 1]

\* one iteration of the fill loop, on [doc, result, log, events, done, escaped]
FillStep(lp, fields, aiResponse) ==
    LET k == FindField(fields, aiResponse.fieldId)
    IN  IF k = 0
        THEN [lp EXCEPT !.result = Count(lp.result, aiResponse.fieldId, FALSE, FALSE),
                        !.done = @ + 1]
        ELSE Only({
            IF r.threw
            THEN [lp EXCEPT !.doc = r.doc, !.events = @ \o r.events, !.escaped = TRUE]
            ELSE [lp EXCEPT
                    !.doc = r.doc, !.events = @ \o r.events, !.done = @ + 1,
                    !.result = Count(lp.result, aiResponse.fieldId, TRUE, r.returns),
                    !.log = Append(@,
                        [fieldId |-> aiResponse.fieldId, type |-> fields[k].type,
                         value |-> aiResponse.output, returns |-> r.returns,
                         caught |-> r.caught, el |-> FieldElement(lp.doc, fields[k]),
                         before |-> lp.doc, after |-> r.doc, evs |-> r.events])]
            : r \in {fillFormField(lp.doc, fields[k], aiResponse.output)}})

\* the fill loop; an error that escapes fillFormField ends it
RECURSIVE FillLoop(_, _, _)
FillLoop(lp, fields, responses) ==
    IF responses = <<>> \/ lp.escaped THEN lp
    ELSE Only({FillLoop(next, fields, Tail(responses)) :
                  next \in {FillStep(lp, fields, Head(responses))}})

\* the handler's .catch
GeneralError ==
    [success |-> FALSE, filledFields |-> 0, skippedFields |-> 0, errorFields |-> 0,
     errors |-> <<[fieldId |-> "general", error |-> "Unknown error"]>>]

UploadRequested == config.uploadResume /\ config.resumeData

InitFill ==
    /\ doc \in FillDocs
    /\ fieldIdCounter = 0
    /\ pc = "idle"
    /\ filterEmpty = FALSE
    /\ allFields = <<>>
    /\ fieldMap = EmptyMap
    /\ processedRadioIds = {}
    /\ processedCheckboxIds = {}
    /\ replaced = {}
    /\ dropped = {}
    /\ returned = <<>>
    /\ response = "none"
    /\ FillIdle
    /\ AsyncIdle

\* a scan made by the fillForm handler: what it returns, or the general error
FillScan(fe, next) ==
    \E r \in {detectFormFields(doc, fieldIdCounter, fe)} :
        /\ doc' = r.doc
        /\ fieldIdCounter' = r.ctr
        /\ returned' = Append(returned, [threw |-> r.threw, fields |-> r.fields])
        /\ filterEmpty' = fe
        /\ IF r.threw
           THEN /\ pc' = "idle"
                /\ response' = GeneralError
                /\ sent' = SentAfter(IF fe THEN sent ELSE 0, TRUE)
                /\ UNCHANGED emptyFields
           ELSE IF fe /\ r.fields = <<>>
           THEN /\ pc' = "idle"
                /\ response' = [NoResult EXCEPT !.success = TRUE,
                                   !.filledFields = IF uploadSuccess THEN 1 ELSE 0]
                /\ sent' = SentAfter(sent, FALSE)
                /\ emptyFields' = r.fields
           ELSE /\ pc' = next
                /\ response' = "none"
                /\ sent' = IF fe THEN sent ELSE 0
                /\ emptyFields' = IF fe THEN r.fields ELSE emptyFields

ReceiveFill ==
    /\ pc = "idle"
    /\ returned = <<>>
    /\ config' \in [uploadResume : BOOLEAN, resumeData : BOOLEAN]
    /\ FillScan(FALSE, "upload")
    /\ UNCHANGED <<quietVars, allFields, fieldMap, processedRadioIds, processedCheckboxIds, replaced,
                   dropped, uploadSuccess, aiResponses, respIdx, result, fillLog, events>>

\* uploadSuccess = await uploadResumeFile(resumeData), when an upload is asked for
UploadResume ==
    /\ pc = "upload"
    /\ IF UploadRequested
       THEN \E ok \in BOOLEAN :
               /\ uploadSuccess' = ok
               /\ pc' = IF ok THEN "settle" ELSE "rescan"
       ELSE /\ uploadSuccess' = FALSE
            /\ pc' = "rescan"
    /\ UNCHANGED <<asyncVars, doc, fieldIdCounter, scanVars, returned, emptyFields, config, aiResponses,
                   respIdx, result, fillLog, events, response>>

\* await waitForAutofillComplete(initialFields) has resolved
Settle ==
    /\ pc = "settle"
    /\ pc' = "rescan"
    /\ UNCHANGED <<asyncVars, doc, fieldIdCounter, scanVars, returned, fillVars>>

Rescan ==
    /\ pc = "rescan"
    /\ FillScan(TRUE, "ai")
    /\ UNCHANGED <<quietVars, allFields, fieldMap, processedRadioIds, processedCheckboxIds, replaced,
                   dropped, config, uploadSuccess, aiResponses, respIdx, result, fillLog,
                   events>>

\* the result record the batch starts from
BatchStart ==
    [NoResult EXCEPT !.success = TRUE, !.filledFields = IF uploadSuccess THEN 1 ELSE 0]

\* the record of a requested upload that failed, added after the loop
Finish(res) ==
    IF ~uploadSuccess /\ UploadRequested
    THEN [res EXCEPT !.errors = Append(@, [fieldId |-> "resume-upload",
                                           error |-> "Failed to upload resume file"])]
    ELSE res

\* the variables of the form and of the two message handlers
formVars == <<doc, fieldIdCounter, pc, scanVars, returned, fillVars>>

\* the widget an element belongs to: its container, or itself
Container(d, i) == IF d[i].parent # 0 THEN d[i].parent ELSE i

\* what a custom-dropdown fill leaves behind when it returns: a connected
\* watcher and an armed 300 ms timer, both holding the value to look for
DropFill(entry) ==
    [container |-> Container(entry.before, entry.el),
     valueStr |-> toLowerCase(String(normalizeAIResponse(entry.value, "custom-dropdown"))),
     observer |-> TRUE, timer |-> "armed", clicks |-> <<>>]

\* the fills of the batch that reached clickable.click(), in the order made
DropFills(log) ==
    [k \in 1..Len(SelectSeq(log, LAMBDA e : e.type = "custom-dropdown" /\ e.el # 0)) |->
        DropFill(SelectSeq(log, LAMBDA e : e.type = "custom-dropdown" /\ e.el # 0)[k])]

\* the option nodes document.querySelectorAll(selector) returns, by widget
RECURSIVE ListedOptions(_, _, _)
ListedOptions(d, listed, i) ==
    IF i > Len(d) THEN <<>>
    ELSE (IF i \in listed
          THEN [k \in 1..Len(d[i].menu) |-> [owner |-> i, item |-> k,
                                              label |-> d[i].menu[k].label]]
          ELSE <<>>) \o ListedOptions(d, listed, i + 1)

\* options.forEach: every option whose text holds the value is clicked
MatchAndClick(d, listed, valueStr, path) ==
    LET options == ListedOptions(d, listed, 1)
        hits == SelectSeq(options, LAMBDA o : includes(toLowerCase(o.label), valueStr))
    IN  [k \in 1..Len(hits) |-> [path |-> path, owner |-> hits[k].owner,
                                  item |-> hits[k].item]]

\* the watcher's callback of one fill after a childList mutation
WatcherCallback(d, listed, f) ==
    IF f.observer /\ ListedOptions(d, listed, 1) # <<>>
    THEN [f EXCEPT !.observer = FALSE,
                   !.clicks = @ \o MatchAndClick(d, listed, f.valueStr, "watcher")]
    ELSE f

\* the timer's callback of one fill
TimerCallback(d, listed, f) ==
    [f EXCEPT !.observer = FALSE, !.timer = "fired",
              !.clicks = @ \o MatchAndClick(d, listed, f.valueStr, "timer")]

\* the page inserts or removes the option nodes of a widget that a fill has
\* clicked; every connected watcher is called back
PageLists ==
    /\ pc = "idle"
    /\ \E c \in {drops.fills[k].container : k \in 1..Len(drops.fills)} :
          \E listed \in {IF c \in drops.listed THEN drops.listed \ {c}
                          ELSE drops.listed \cup {c}} :
             drops' = [fills |-> [k \in 1..Len(drops.fills) |->
                                     WatcherCallback(doc, listed, drops.fills[k])],
                       listed |-> listed]
    /\ UNCHANGED <<formVars, page, wait, expand, extract, sent, worker>>

\* the oldest armed 300 ms timer fires
TimerFires ==
    /\ pc = "idle"
    /\ \E k \in 1..Len(drops.fills) :
          /\ drops.fills[k].timer = "armed"
          /\ \A j \in 1..(k - 1) : drops.fills[j].timer = "fired"
          /\ drops' = [drops EXCEPT
                          !.fills[k] = TimerCallback(doc, drops.listed, drops.fills[k])]
    /\ UNCHANGED <<formVars, page, wait, expand, extract, sent, worker>>

\* the AI responses arrive; the loop fills, the result is sent
FillBatch ==
    /\ pc = "ai"
    /\ \E n \in 0..MaxResponses :
         \E responses \in [1..n -> ResponsesFor(emptyFields)] :
            \E lp \in {FillLoop([doc |-> doc, result |-> BatchStart, log |-> <<>>,
                                 events |-> events, done |-> 0, escaped |-> FALSE],
                                emptyFields, responses)} :
                /\ aiResponses' = responses
                /\ doc' = lp.doc
                /\ events' = lp.events
                /\ fillLog' = lp.log
                /\ respIdx' = lp.done
                /\ result' = IF lp.escaped THEN lp.result ELSE Finish(lp.result)
                /\ response' = IF lp.escaped THEN GeneralError ELSE Finish(lp.result)
                /\ drops' = [drops EXCEPT !.fills = DropFills(lp.log)]
                /\ sent' = SentAfter(sent, lp.escaped)
    /\ pc' = "idle"
    /\ UNCHANGED <<page, wait, expand, extract, worker, fieldIdCounter, scanVars, returned,
                   emptyFields, config, uploadSuccess>>

\* the page's own autofill, started by the upload, writes a value into an
\* empty text input while the handler is waiting for a promise
AutofillWrites ==
    /\ uploadSuccess
    /\ pc \in {"settle", "rescan", "ai"}
    /\ \E i \in 1..Len(doc) :
          /\ doc[i].tag = "input" /\ doc[i].type = "text" /\ doc[i].value = ""
          /\ doc' = [doc EXCEPT ![i].value = "Ada"]
          /\ page' = [page EXCEPT !.wrote = @ \cup {i}]
    /\ UNCHANGED <<fieldIdCounter, pc, scanVars, returned, fillVars, wait, expand, workVars>>

NextFill ==
    \/ ReceiveFill
    \/ UploadResume
    \/ Settle
    \/ Rescan
    \/ AutofillWrites
    \/ FillBatch
    \/ PageLists
    \/ TimerFires

SpecFill == InitFill /\ [][NextFill]_vars

(***************************************************************************)
(* The message listener as a whole: a page receives detectFormFields and   *)
(* fillForm messages, each handled to its end before the next is taken.    *)
(***************************************************************************)

\* two fieldsets without class and id, each with two enabled checkboxes
BoxGo == [BoxInFieldset EXCEPT !.id = "k1", !.value = "go"]
BoxRust == [BoxInFieldset EXCEPT !.id = "k3", !.value = "rust"]
BoxDay == [BoxInFieldset EXCEPT !.id = "h1", !.value = "day", !.fieldset = 2]
BoxNight == [BoxInFieldset EXCEPT !.id = "h2", !.value = "night", !.fieldset = 2]

\* the pages of the fill handler, two whose scan throws, and the two fieldsets
MessageDocs ==
    FillDocs \cup {<<RadioWithId, RadioBadId>>, <<TextInput, AriaBadId>>,
                   <<BoxGo, BoxRust, BoxDay, BoxNight>>}

InitMessages ==
    /\ doc \in MessageDocs
    /\ fieldIdCounter = 0
    /\ pc = "idle"
    /\ filterEmpty = FALSE
    /\ allFields = <<>>
    /\ fieldMap = EmptyMap
    /\ processedRadioIds = {}
    /\ processedCheckboxIds = {}
    /\ replaced = {}
    /\ dropped = {}
    /\ returned = <<>>
    /\ response = "none"
    /\ FillIdle
    /\ AsyncIdle

NextMessages == Next \/ NextFill

SpecMessages == InitMessages /\ [][NextMessages]_vars

(***************************************************************************)
(* waitForAutofillComplete of content_script.ts: the promise the fillForm   *)
(* handler awaits after a successful upload.  Its steps are the executor,   *)
(* the mutation watcher's callback and the 500 ms poll tick.                *)
(***************************************************************************)
MaxWaitTime == 10000
PollInterval == 500

\* no pending layer and no visible spinner inside an autofill container
checkUIState(pg) == ~pg.pendingLayer /\ ~pg.spinner

\* a name holding a double quote makes input[type="radio"][name="..."] an
\* invalid selector: document.querySelector throws a SyntaxError
SelectorThrows(field) == field.type = "radio-group" /\ HasQuote(field.name)

\* `!field.value || field.value === ''`
WasEmpty(field) == field.value = Undefined \/ field.value = ""

\* currentValue of the element, and whether it counts as a value now
NowHasValue(e) ==
    IF e.tag = "input" /\ e.type \in {"checkbox", "radio"} THEN e.checked
    ELSE IF e.tag \in {"input", "textarea"} THEN trim(e.value) # ""
    ELSE IF e.tag = "select" THEN trim(SelectValue(e)) # ""
    ELSE FALSE

\* checkFieldValues(): [threw, value]; the lookup of a descriptor that no id
\* finds goes through its selector
checkFieldValues(d, fields, pg) ==
    LET tracked == {k \in 1..Len(fields) : fields[k].type # "file"}
        filled == {k \in tracked :
                      /\ FieldElement(d, fields[k]) # 0
                      /\ WasEmpty(fields[k])
                      /\ NowHasValue(d[FieldElement(d, fields[k])])}
    IN  [threw |-> \E k \in tracked :
                      /\ \A i \in 1..Len(d) : d[i].id # fields[k].id
                      /\ SelectorThrows(fields[k]),
         value |-> filled # {} \/ checkUIState(pg)]

\* the field values alone, whatever the indicators show
AutofillSettledByFields(d, fields, pg) == checkFieldValues(d, fields, pg)

\* `checkUIState() && checkFieldValues()`
AutofillSettled(d, fields, pg) ==
    IF ~checkUIState(pg) THEN [threw |-> FALSE, value |-> FALSE]
    ELSE checkFieldValues(d, fields, pg)

\* observer.disconnect(); clearInterval(pollIntervalId); resolve()
ResolveWait(w) ==
    [w EXCEPT !.observer = FALSE, !.interval = FALSE,
              !.state = IF @ = "pending" THEN "resolved" ELSE @]

RadioQuotedYes == [BaseEl EXCEPT !.type = "radio", !.name = "a\"b", !.id = "qa", !.value = "yes"]
RadioQuotedNo == [BaseEl EXCEPT !.type = "radio", !.name = "a\"b", !.id = "qb", !.value = "no"]

WaitDocs ==
    {<<TextLikeEl("text"), CountrySelect>>,
     <<RadioEmpty, RadioNo, TextLikeEl("email")>>,
     <<RadioQuotedYes, RadioQuotedNo, TextLikeEl("text")>>,
     <<FileInput, LoneCheckbox>>}

\* the state in which the handler calls waitForAutofillComplete(initialFields):
\* the first scan is made, the page may show its indicators
InitWait ==
    /\ \E d \in WaitDocs :
          \E r \in {detectFormFields(d, 0, FALSE)} :
             /\ doc = r.doc
             /\ fieldIdCounter = r.ctr
             /\ returned = <<[threw |-> r.threw, fields |-> r.fields]>>
             /\ wait = [state |-> "idle", elapsed |-> 0, observer |-> FALSE,
                        interval |-> FALSE, fields |-> r.fields]
    /\ page \in [pendingLayer : BOOLEAN, spinner : BOOLEAN, menus : {0}, wrote : {{}}]
    /\ expand = [state |-> "idle", resolved |-> FALSE, resolves |-> 0, observer |-> FALSE,
                 timer |-> "unset", clicked |-> 0]
    /\ WorkIdle
    /\ pc = "settle"
    /\ filterEmpty = FALSE
    /\ allFields = <<>>
    /\ fieldMap = EmptyMap
    /\ processedRadioIds = {}
    /\ processedCheckboxIds = {}
    /\ replaced = {}
    /\ dropped = {}
    /\ response = "none"
    /\ FillIdle

\* the promise's executor: watcher and timer are set up, then the first check;
\* an error thrown here rejects the promise
WaitStart ==
    /\ wait.state = "idle"
    /\ \E c \in {AutofillSettled(doc, wait.fields, page)} :
          wait' = IF c.threw
                  THEN [wait EXCEPT !.state = "rejected", !.observer = TRUE,
                                    !.interval = TRUE]
                  ELSE IF c.value THEN [wait EXCEPT !.state = "resolved"]
                  ELSE [wait EXCEPT !.state = "pending", !.observer = TRUE,
                                    !.interval = TRUE]
    /\ UNCHANGED <<doc, fieldIdCounter, pc, scanVars, returned, fillVars, page, expand, workVars>>

\* the page shows or hides an indicator (data-state, class, style): the
\* watcher's callback runs when it is connected; an error in it goes nowhere
IndicatorChange ==
    /\ wait.state # "idle"
    /\ \E pg \in [pendingLayer : BOOLEAN, spinner : BOOLEAN, menus : {page.menus},
                   wrote : {page.wrote}] :
          /\ pg # page
          /\ page' = pg
          /\ \E c \in {AutofillSettled(doc, wait.fields, pg)} :
                wait' = IF wait.observer /\ ~c.threw /\ c.value THEN ResolveWait(wait)
                        ELSE wait
    /\ UNCHANGED <<doc, fieldIdCounter, pc, scanVars, returned, fillVars, expand, workVars>>

\* the page's own autofill writes a value into an empty text control; a value
\* is a property, so no watcher callback follows
PageAutofill ==
    /\ wait.state # "idle"
    /\ \E i \in 1..Len(doc) :
          /\ doc[i].tag = "input" /\ doc[i].type \in {"text", "email"} /\ doc[i].value = ""
          /\ doc' = [doc EXCEPT ![i].value = "Ada"]
          /\ page' = [page EXCEPT !.wrote = @ \cup {i}]
    /\ UNCHANGED <<fieldIdCounter, pc, scanVars, returned, fillVars, wait, expand, workVars>>

\* the setInterval callback: the ceiling first, then the check
PollTick ==
    /\ wait.interval
    /\ \E c \in {AutofillSettled(doc, wait.fields, page)} :
          wait' = IF wait.elapsed + PollInterval >= MaxWaitTime
                  THEN ResolveWait([wait EXCEPT !.elapsed = @ + PollInterval])
                  ELSE IF ~c.threw /\ c.value
                  THEN ResolveWait([wait EXCEPT !.elapsed = @ + PollInterval])
                  ELSE [wait EXCEPT !.elapsed = @ + PollInterval]
    /\ UNCHANGED <<doc, fieldIdCounter, pc, scanVars, returned, fillVars, page, expand, workVars>>

NextWait ==
    \/ WaitStart
    \/ IndicatorChange
    \/ PageAutofill
    \/ PollTick

\* the executor runs when the promise is made; an active interval timer fires
SpecWait == InitWait /\ [][NextWait]_vars /\ WF_vars(WaitStart) /\ WF_vars(PollTick)

(***************************************************************************)
(* expandAllDropdowns of dropdownUtils.ts: selects are sized, the custom    *)
(* dropdowns are clicked, and the promise is resolved by checkAndExpand     *)
(* (first check, watcher callback) or by the 500 ms fallback timer.         *)
(***************************************************************************)
MaxMenus == 2

\* customDropdownPatterns, by role and by class
ExpandPatterns ==
    <<Sel("role", "combobox"), Sel("role", "listbox"), Sel("class", "dropdown"),
      Sel("class", "select2-container"), Sel("class", "chosen-container"),
      Sel("class", "select-dropdown"), Sel("attr", "data-toggle=dropdown"),
      Sel("class", "ui-selectmenu"), Sel("class", "select-menu")>>

\* the clicks dispatched: one per pattern and element matching it
ClickCount(d) ==
    Cardinality({pe \in (1..Len(ExpandPatterns)) \X (1..Len(d)) :
                    Matches(ExpandPatterns[pe[1]], d[pe[2]])})

\* select.size = Math.min(select.options.length, 10)
SizeSelects(d) ==
    [i \in 1..Len(d) |->
        IF d[i].tag = "select"
        THEN [d[i] EXCEPT !.size = IF Len(d[i].options) < 10 THEN Len(d[i].options) ELSE 10]
        ELSE d[i]]

\* resolve() of the promise: only the first call settles it
ResolveExpand(x) ==
    [x EXCEPT !.resolved = TRUE, !.resolves = @ + 1,
              !.state = IF @ = "pending" THEN "resolved" ELSE @]

checkAndExpandUnguarded(x, menus) ==
    IF menus > 0
    THEN ResolveExpand([x EXCEPT !.observer = FALSE,
                                 !.timer = IF @ = "armed" THEN "cleared" ELSE @])
    ELSE x

\* checkAndExpand(): with a menu in the document the watcher and the timer are
\* dropped and the promise is resolved unless `resolved` is set
checkAndExpand(x, menus) ==
    IF menus > 0
    THEN LET off == [x EXCEPT !.observer = FALSE,
                              !.timer = IF @ = "armed" THEN "cleared" ELSE @]
         IN  IF off.resolved THEN off ELSE ResolveExpand(off)
    ELSE x

\* the fallback timer's callback resolves without a condition
TimerCallbackEnd(x) ==
    IF x.resolved THEN [x EXCEPT !.observer = FALSE]
    ELSE ResolveExpand([x EXCEPT !.observer = FALSE])

ExpandDocs == FillDocs \cup {<<Dropdown, [Dropdown EXCEPT !.id = "d2", !.role = "listbox"]>>}

InitExpand ==
    /\ doc \in ExpandDocs
    /\ page \in [pendingLayer : {FALSE}, spinner : {FALSE}, menus : 0..MaxMenus,
                 wrote : {{}}]
    /\ expand = [state |-> "idle", resolved |-> FALSE, resolves |-> 0, observer |-> FALSE,
                 timer |-> "unset", clicked |-> 0]
    /\ wait = [state |-> "idle", elapsed |-> 0, observer |-> FALSE, interval |-> FALSE,
               fields |-> <<>>]
    /\ WorkIdle
    /\ fieldIdCounter = 0
    /\ pc = "expand"
    /\ filterEmpty = FALSE
    /\ allFields = <<>>
    /\ fieldMap = EmptyMap
    /\ processedRadioIds = {}
    /\ processedCheckboxIds = {}
    /\ replaced = {}
    /\ dropped = {}
    /\ returned = <<>>
    /\ response = "none"
    /\ FillIdle

\* the promise's executor: sizes, clicks, the watcher, the first check, and
\* only then the timer
ExpandStart ==
    /\ expand.state = "idle"
    /\ doc' = SizeSelects(doc)
    /\ \E x \in {checkAndExpand([expand EXCEPT !.state = "pending", !.observer = TRUE,
                                               !.clicked = ClickCount(doc)],
                                page.menus)} :
          expand' = [x EXCEPT !.timer = "armed"]
    /\ UNCHANGED <<fieldIdCounter, pc, scanVars, returned, fillVars, page, wait, workVars>>

\* the page opens or closes menus, or changes a style or class: the watcher's
\* callback runs checkAndExpand while the watcher is connected
PageMutation ==
    /\ expand.state # "idle"
    /\ \E m \in 0..MaxMenus :
          /\ page' = [page EXCEPT !.menus = m]
          /\ expand' = IF expand.observer THEN checkAndExpand(expand, m) ELSE expand
    /\ UNCHANGED <<doc, fieldIdCounter, pc, scanVars, returned, fillVars, wait, workVars>>

\* the fallback timer fires
TimerFire ==
    /\ expand.timer = "armed"
    /\ expand' = TimerCallbackEnd(checkAndExpand([expand EXCEPT !.timer = "fired"],
                                                 page.menus))
    /\ UNCHANGED <<doc, fieldIdCounter, pc, scanVars, returned, fillVars, page, wait, workVars>>

NextExpand ==
    \/ ExpandStart
    \/ PageMutation
    \/ TimerFire

\* the executor runs when the promise is made; an armed timer fires
SpecExpand == InitExpand /\ [][NextExpand]_vars /\ WF_vars(ExpandStart) /\ WF_vars(TimerFire)

(***************************************************************************)
(* The expansion loop of extractCustomDropdownOptions, one action per       *)
(* activation attempt: the page answers an attempt by showing the menu or   *)
(* not, the watcher reports it or not.                                      *)
(***************************************************************************)
\* expansionMethods, in the order of the array
ExpansionMethods == <<"Space", "Enter", "ArrowDown", "click">>

\* no message handled yet on document d
FormIdle(d) ==
    /\ doc = d
    /\ fieldIdCounter = 0
    /\ pc = "idle"
    /\ filterEmpty = FALSE
    /\ allFields = <<>>
    /\ fieldMap = EmptyMap
    /\ processedRadioIds = {}
    /\ processedCheckboxIds = {}
    /\ replaced = {}
    /\ dropped = {}
    /\ returned = <<>>
    /\ response = "none"
    /\ FillIdle

\* a shell whose menu holds nothing but a placeholder
ShellPlaceholder ==
    [Shell EXCEPT !.opens = TRUE,
                  !.menu = <<[value |-> "Select...", label |-> "Select...",
                              selected |-> TRUE, shown |-> FALSE]>>]

ExtractDocs ==
    {<<ShellClosed, ShellInput>>, <<Shell, ShellInput>>, <<ShellOpen, ShellInput>>,
     <<ShellPlaceholder, ShellInput>>, <<Shell, ShellInput, ShellOpen>>,
     <<ShellPlaceholder, ShellInput, ShellClosed>>, <<Combobox, ShellClosed>>}

InitExtract ==
    /\ \E d \in ExtractDocs : FormIdle(d)
    /\ AsyncIdle

\* the loop goes on after an attempt whatever the extraction returned
AfterAttemptGoOn(x, options) == [x EXCEPT !.options = options]

\* `if (extracted.length > 0) { focusableElement.blur(); return extracted; }`
AfterAttempt(x, options) ==
    IF options # <<>> THEN [x EXCEPT !.options = options, !.state = "done"]
    ELSE x

\* the call starts: options already visible are returned without any attempt
ExtractStart ==
    /\ extract.state = "idle"
    /\ \E c \in 1..Len(doc) :
          /\ \E k \in 1..Len(DropdownSelectors) : Matches(DropdownSelectors[k], doc[c])
          /\ \E already \in {VisibleItems(doc, c, FALSE)} :
                extract' = IF already # <<>>
                           THEN [extract EXCEPT
                                    !.state = "done", !.container = c,
                                    !.options = [k \in 1..Len(already) |->
                                                    MenuOption(already[k])]]
                           ELSE [extract EXCEPT !.state = "trying", !.container = c]
    /\ UNCHANGED <<formVars, page, wait, expand, drops, sent, worker>>

\* one pass of the loop over expansionMethods: the method, the settle delay,
\* the watcher's report, the extraction
Attempt ==
    /\ extract.state = "trying"
    /\ Len(extract.attempts) < Len(ExpansionMethods)
    /\ \E opened \in {o \in BOOLEAN : o => doc[extract.container].opens},
          appeared \in BOOLEAN :
          /\ appeared => opened
          /\ \E options \in {extractVisibleOptions(doc, extract.container, opened)} :
                extract' =
                    AfterAttempt(
                        [extract EXCEPT
                            !.opened = opened,
                            !.attempts =
                                Append(@, [method |-> ExpansionMethods[Len(@) + 1],
                                           appeared |-> appeared,
                                           found |-> options # <<>>])],
                        options)
    /\ UNCHANGED <<formVars, page, wait, expand, drops, sent, worker>>

\* `return await extractVisibleOptions(container || element)` after the loop
FinalExtraction ==
    /\ extract.state = "trying"
    /\ Len(extract.attempts) = Len(ExpansionMethods)
    /\ extract' = [extract EXCEPT
                      !.state = "done", !.finals = @ + 1,
                      !.options = extractVisibleOptions(doc, extract.container,
                                                        extract.opened)]
    /\ UNCHANGED <<formVars, page, wait, expand, drops, sent, worker>>

NextExtract ==
    \/ ExtractStart
    \/ Attempt
    \/ FinalExtraction

SpecExtract == InitExtract /\ [][NextExtract]_vars

(***************************************************************************)
(* The background service worker: BaseAIService (one instance, shared) and *)
(* FormFillerService.processFormFields, which the onMessage listener       *)
(* starts for each processFormFields message without waiting for an        *)
(* earlier one.  An operation gives up the thread at each await: creating  *)
(* the session, cloning it, prompting the clone, destroying the session.   *)
(* Sessions are numbered in the order they are made; 0 is none.            *)
(***************************************************************************)

\* const maxRetries = field.required ? 2 : 0
maxRetries(field) == IF field.required THEN 2 ELSE 0

getRequiredFieldFallback(field) ==
    IF field.type \in {"select", "custom-dropdown", "radio-group"} /\ Len(field.options) > 0
    THEN field.options[1].value
    ELSE IF field.type = "checkbox" THEN "false"
    ELSE "n/a"

\* the JSON a prompt may answer with, as the key it carries and String(its value)
ParsedAnswers ==
    {[key |-> "value", text |-> "Ada"], [key |-> "value", text |-> ""],
     [key |-> "value", text |-> "  "], [key |-> "value", text |-> "null"],
     [key |-> "answer", text |-> "Ada"]}

\* outputValue after the chain of `parsed.<key> !== undefined` tests
OutputValue(parsed) ==
    IF parsed.key \in {"value", "selectedValue", "checked", "selectedValues"}
    THEN parsed.text ELSE ""

\* !outputValue || outputValue.trim() === '' || 'null' || 'undefined'
isEmpty(outputValue) ==
    outputValue = "" \/ trim(outputValue) = "" \/ outputValue \in {"null", "undefined"}

\* the AIResponse returned for a field; confidence in tenths
AIResponse(field, output, confidence) ==
    [fieldId |-> field.id, output |-> output, confidence |-> confidence]

\* the fields of the messages the worker receives
RequiredSelect ==
    [id |-> "s1", type |-> "select", required |-> TRUE, options |-> SelectOptions(CountrySelect)]
RequiredText == [id |-> "t2", type |-> "text", required |-> TRUE, options |-> <<>>]
RequiredCheckbox == [id |-> "c1", type |-> "checkbox", required |-> TRUE, options |-> <<>>]
OptionalText == [id |-> "t1", type |-> "text", required |-> FALSE, options |-> <<>>]

WorkerFields(o) ==
    IF o = 1
    THEN {<<RequiredSelect>>, <<OptionalText, RequiredText>>, <<RequiredCheckbox>>}
    ELSE {<<OptionalText>>}

\* the field operation o of w is at
Field(w, o) == w.ops[o].fields[w.ops[o].idx]

\* processField returns: responses.push(response), then the next field or,
\* after the last, the finally block
Returns(w, o, aiResponse) ==
    [w EXCEPT !.ops[o].responses = Append(@, aiResponse),
              !.ops[o].idx = @ + 1,
              !.ops[o].attempts = 0,
              !.ops[o].clone = 0,
              !.ops[o].pc = IF w.ops[o].idx = Len(w.ops[o].fields) THEN "cleanup" ELSE "clone"]

\* the catch block of processField
Caught(w, o) ==
    IF w.ops[o].attempts >= maxRetries(Field(w, o))
    THEN Returns(w, o, AIResponse(Field(w, o),
                                  IF Field(w, o).required
                                  THEN getRequiredFieldFallback(Field(w, o)) ELSE "", 0))
    ELSE [w EXCEPT !.ops[o].attempts = @ + 1, !.ops[o].clone = 0, !.ops[o].pc = "clone"]

\* the while loop begins a pass for the field
StartPass(w, o) == [w EXCEPT !.ops[o].passes[w.ops[o].idx] = @ + 1]

\* BaseAIService.createSession when LanguageModel.create resolves
createSession(w, o) ==
    [w EXCEPT !.owner = Append(@, o),
              !.live = @ \cup {Len(w.owner) + 1},
              !.currentSession = Len(w.owner) + 1,
              !.ops[o].base = Len(w.owner) + 1,
              !.ops[o].pc = "clone"]

\* BaseAIService.cloneSession, called in the try block of processField
cloneSession(w, o) ==
    IF w.currentSession = 0
    THEN Caught(w, o)
    ELSE [w EXCEPT !.owner = Append(@, o),
                   !.live = @ \cup {Len(w.owner) + 1},
                   !.ops[o].clone = Len(w.owner) + 1,
                   !.ops[o].pc = "prompt"]

\* the prompt resolved with JSON: the clone is destroyed, a required field's
\* output validated, and the loop goes round again or the response is returned
Answered(w, o, parsed) ==
    IF Field(w, o).required /\ isEmpty(OutputValue(parsed))
       /\ w.ops[o].attempts < maxRetries(Field(w, o))
    THEN [w EXCEPT !.live = @ \ {w.ops[o].clone},
                   !.ops[o].attempts = @ + 1, !.ops[o].clone = 0, !.ops[o].pc = "clone"]
    ELSE Returns([w EXCEPT !.live = @ \ {w.ops[o].clone}], o,
                 AIResponse(Field(w, o),
                            IF Field(w, o).required /\ isEmpty(OutputValue(parsed))
                            THEN getRequiredFieldFallback(Field(w, o))
                            ELSE OutputValue(parsed),
                            IF w.ops[o].attempts > 0 THEN 7 ELSE 10))

\* BaseAIService.destroySession
destroySession(w) ==
    IF w.currentSession # 0
    THEN [w EXCEPT !.live = @ \ {w.currentSession}, !.currentSession = 0]
    ELSE w

InitWorker ==
    /\ FormIdle(<<TextLikeEl("text"), CountrySelect>>)
    /\ AsyncIdle

\* the listener calls processFormFields(fields, ...), which runs up to the
\* first await of createSession
ReceiveProcess ==
    /\ \E o \in Ops :
          /\ worker.ops[o].pc = "idle"
          /\ \E fs \in WorkerFields(o) :
                worker' = [worker EXCEPT !.ops[o] =
                              [OpIdle EXCEPT !.pc = "create", !.fields = fs, !.idx = 1,
                                             !.passes = [k \in 1..Len(fs) |-> 0]]]
    /\ UNCHANGED <<formVars, page, wait, expand, extract, drops, sent>>

\* await this.baseService.createSession(...) settles; a rejection is rethrown
\* by processFormFields after its finally block
CreateSession ==
    /\ \E o \in Ops :
          /\ worker.ops[o].pc = "create"
          /\ \E created \in BOOLEAN :
                worker' = IF created THEN createSession(worker, o)
                          ELSE [worker EXCEPT !.ops[o].threw = TRUE, !.ops[o].pc = "cleanup"]
    /\ UNCHANGED <<formVars, page, wait, expand, extract, drops, sent>>

\* a pass of the while loop up to `await this.baseService.cloneSession()`
CloneSession ==
    /\ \E o \in Ops :
          /\ worker.ops[o].pc = "clone"
          /\ worker' = cloneSession(StartPass(worker, o), o)
    /\ UNCHANGED <<formVars, page, wait, expand, extract, drops, sent>>

\* await clonedSession.prompt(...) settles: rejected (or answered with text
\* JSON.parse throws on), or answered with JSON
Prompt ==
    /\ \E o \in Ops :
          /\ worker.ops[o].pc = "prompt"
          /\ \/ worker' = Caught(worker, o)
             \/ \E parsed \in ParsedAnswers : worker' = Answered(worker, o, parsed)
    /\ UNCHANGED <<formVars, page, wait, expand, extract, drops, sent>>

\* the finally block of processFormFields, after which the operation is over
DestroySession ==
    /\ \E o \in Ops :
          /\ worker.ops[o].pc = "cleanup"
          /\ worker' = [destroySession(worker) EXCEPT !.ops[o].pc = "done"]
    /\ UNCHANGED <<formVars, page, wait, expand, extract, drops, sent>>

NextWorker ==
    \/ ReceiveProcess
    \/ CreateSession
    \/ CloneSession
    \/ Prompt
    \/ DestroySession

SpecWorker == InitWorker /\ [][NextWorker]_vars

(***************************************************************************)
(* Properties of the scan (specification Spec).                            *)
(***************************************************************************)
\* the scans that returned an array
Returned == {k \in 1..Len(returned) : ~returned[k].threw}

\* the elements that are members of a group descriptor of fs
GroupMembers(fs) ==
    UNION {{fs[g].options[o].element : o \in 1..Len(fs[g].options)} :
              g \in {g \in 1..Len(fs) : fs[g].isGroup}}

\* C1: in a returned array no control that is a member of a radio-group or
\* checkbox-group descriptor is also present as a standalone descriptor
C1_NoMemberStandalone ==
    \A k \in Returned :
        LET fs == returned[k].fields
        IN  \A s \in 1..Len(fs) : ~fs[s].isGroup => fs[s].el \notin GroupMembers(fs)

\* C2: in a returned array no two descriptors share an id
C2_UniqueIds ==
    \A k \in Returned :
        LET fs == returned[k].fields
        IN  \A i, j \in 1..Len(fs) : fs[i].id = fs[j].id => i = j

\* a scan returned several descriptors after the merge had met an id again
C2_Witness ==
    \E k \in Returned : Len(returned[k].fields) >= 2 /\ dropped # {} /\ pc = "idle"

Triples(fs) == {<<fs[k].id, fs[k].type, fs[k].label>> : k \in 1..Len(fs)}

\* C3: two scans in a row of a document that nothing else changes return the
\* same set of (id, type, label) triples
C3_SameTriples ==
    (Len(returned) >= 2 /\ 1 \in Returned /\ 2 \in Returned)
        => Triples(returned[1].fields) = Triples(returned[2].fields)

\* C4: the merge replaces a recorded descriptor only by a custom-dropdown
\* descriptor and only when the recorded one is none, so that during a scan a
\* recorded id stays recorded and its type changes to custom-dropdown only
C4_ReplaceOnlyUpgrades ==
    /\ [](\A r \in replaced :
             r.now.type = "custom-dropdown" /\ r.was.type # "custom-dropdown")
    /\ [][pc # "idle" =>
            \A id \in DOMAIN fieldMap :
                /\ id \in DOMAIN fieldMap'
                /\ fieldMap'[id].type # fieldMap[id].type =>
                      fieldMap'[id].type = "custom-dropdown"]_vars

\* a scan has replaced one recorded descriptor and kept another
C4_Witness == replaced # {} /\ dropped # {}

\* C5: a scan never throws: every detectFormFields call returns an array
C5_NeverThrows == \A k \in 1..Len(returned) : ~returned[k].threw

(***************************************************************************)
(* Properties of the fill-back (specification SpecFill).                   *)
(***************************************************************************)
\* the fillForm batch has run its fill loop and answered
BatchDone == pc = "idle" /\ Len(returned) = 2 /\ emptyFields # <<>>

\* the responses that name a scanned descriptor
Matched == {k \in 1..Len(aiResponses) : FindField(emptyFields, aiResponses[k].fieldId) # 0}

\* C6: fillFormField returns true or false and never throws, so the batch
\* processes every AI response, also those after a fill that failed
C6_FillNeverThrows ==
    /\ \A k \in 1..Len(fillLog) : fillLog[k].returns \in BOOLEAN
    /\ BatchDone =>
          /\ respIdx = Len(aiResponses)
          /\ Len(fillLog) = Cardinality(Matched)
          /\ response # GeneralError

\* a fill whose body threw returned false, and the next response was filled
C6_Witness ==
    /\ BatchDone
    /\ \E k \in 1..(Len(fillLog) - 1) : fillLog[k].caught /\ ~fillLog[k].returns

IsFailed(entry) == ~entry.returns

\* the error records the failed fills leave, in the order of the fills
FailedRecords ==
    LET failed == SelectSeq(fillLog, IsFailed)
    IN  [k \in 1..Len(failed) |->
            [fieldId |-> failed[k].fieldId, error |-> "Failed to fill field"]]

UploadRecord ==
    IF UploadRequested /\ ~uploadSuccess
    THEN <<[fieldId |-> "resume-upload", error |-> "Failed to upload resume file"]>>
    ELSE <<>>

\* C7: after the fill loop every AI response is counted exactly once, an
\* unmatched response is counted as skipped and writes nothing, and errors
\* holds one record per failed fill plus the record of a failed upload
C7_EveryResponseCounted ==
    /\ [](BatchDone =>
            /\ result.filledFields + result.errorFields + result.skippedFields
                  = Len(aiResponses) + (IF uploadSuccess THEN 1 ELSE 0)
            /\ result.skippedFields = Len(aiResponses) - Cardinality(Matched)
            /\ result.errorFields = Len(FailedRecords)
            /\ result.errors = FailedRecords \o UploadRecord
            /\ response = result
            /\ \A k \in 1..(Len(fillLog) - 1) : fillLog[k].after = fillLog[k + 1].before
            /\ fillLog # <<>> => fillLog[Len(fillLog)].after = doc)
    /\ [][(pc = "ai" /\ pc' = "idle"
              /\ \A k \in 1..Len(aiResponses') :
                    FindField(emptyFields, aiResponses'[k].fieldId) = 0)
             => doc' = doc /\ events' = events]_vars

\* a batch with a skipped response, a failed fill and a failed upload
C7_Witness ==
    /\ BatchDone
    /\ result.skippedFields = 1
    /\ result.errorFields = 1
    /\ UploadRequested /\ ~uploadSuccess

\* C8: a text-like fill with a string writes "n/a" when the trimmed string is
\* empty, "null" or "undefined", the trimmed string otherwise, and dispatches
\* input before change
C8_TextLikeWrites ==
    \A k \in 1..Len(fillLog) :
        LET entry == fillLog[k]
            text == trim(entry.value.s)
        IN  (/\ entry.type \in TextLikeTypes \cup {"textarea"}
             /\ entry.value.kind = "string"
             /\ entry.el # 0)
            => /\ entry.after[entry.el].value =
                     IF text \in {"", "null", "undefined"} THEN "n/a" ELSE text
               /\ entry.evs = <<Event(entry.el, "input"), Event(entry.el, "change")>>

\* C9: a select or multi-select fill with the empty string changes nothing
\* in the document and dispatches no event
C9_EmptyKeepsSelection ==
    \A k \in 1..Len(fillLog) :
        (fillLog[k].type \in {"select", "multi-select"} /\ fillLog[k].value = Str(""))
            => fillLog[k].after = fillLog[k].before /\ fillLog[k].evs = <<>>

First(S) == IF S = {} THEN 0 ELSE CHOOSE k \in S : \A j \in S : k <= j

\* the option the stated priority picks: exact value, then text, then index
PriorityOption(options, v) ==
    LET byValue == {k \in 1..Len(options) : options[k].value = v}
        byText == {k \in 1..Len(options) :
                      includes(toLowerCase(options[k].text), toLowerCase(v))}
        index == parseInt(v)
    IN  IF byValue # {} THEN First(byValue)
        ELSE IF byText # {} THEN First(byText)
        ELSE IF ~index.nan /\ index.n >= 0 /\ index.n < Len(options) THEN index.n + 1
        ELSE 0

\* C10: a select fill chooses the option of exact value before an option
\* matching by text, and that before the option at the numeric index
C10_ValueBeforeText ==
    \A k \in 1..Len(fillLog) :
        LET entry == fillLog[k]
            options == entry.before[entry.el].options
            chosen == PriorityOption(options, trim(entry.value.s))
        IN  (/\ entry.type \in {"select", "multi-select"}
             /\ entry.value.kind = "string"
             /\ entry.el # 0
             /\ chosen # 0)
            => /\ entry.after[entry.el].options[chosen].selected
               /\ ~entry.before[entry.el].multiple =>
                     \A j \in 1..Len(options) :
                         j # chosen => ~entry.after[entry.el].options[j].selected

\* the descriptor a logged fill was made on
FilledField(entry) == emptyFields[FindField(emptyFields, entry.fieldId)]

\* the selections a checkbox-group value supplies, lower-cased: a JSON list
\* of strings, or else the comma-separated parts, trimmed
Selections(text) ==
    LET json == JSONParse(text)
        parts == Split(text, "", <<>>)
    IN  IF json.ok THEN {toLowerCase(json.items[k]) : k \in 1..Len(json.items)}
        ELSE {toLowerCase(trim(parts[k])) : k \in 1..Len(parts)}

\* C11: a checkbox-group fill leaves the checked state of every member whose
\* value and label equal none of the supplied selections as it was
C11_OthersKeepState ==
    \A k \in 1..Len(fillLog) :
        LET entry == fillLog[k]
            options == FilledField(entry).options
            wanted == Selections(trim(entry.value.s))
        IN  entry.type = "checkbox-group" =>
                \A o \in 1..Len(options) :
                    (/\ options[o].element # 0
                     /\ toLowerCase(options[o].value) \notin wanted
                     /\ toLowerCase(options[o].label) \notin wanted)
                    => entry.after[options[o].element].checked
                          = entry.before[options[o].element].checked

\* the member options of a radio-group whose value or label is the value
RadioHits(entry) ==
    LET options == FilledField(entry).options
        valueStr == toLowerCase(trim(entry.value.s))
    IN  {o \in 1..Len(options) :
            toLowerCase(options[o].value) = valueStr
            \/ toLowerCase(options[o].label) = valueStr}

HandledTypes ==
    TextLikeTypes \cup {"textarea", "checkbox", "radio", "radio-group", "checkbox-group",
                        "select", "multi-select", "custom-dropdown"}

\* the value of a logged fill is that of no option of the filled control
NoOptionMatches(entry) ==
    LET field == FilledField(entry)
        options == field.options
        valueStr == toLowerCase(trim(entry.value.s))
        cur == entry.before
    IN  CASE entry.type = "radio" ->
                 \A i \in 1..Len(cur) :
                     (cur[i].tag = "input" /\ cur[i].type = "radio")
                         => toLowerCase(cur[i].value) # valueStr
          [] entry.type = "radio-group" -> RadioHits(entry) = {}
          [] entry.type = "checkbox-group" ->
                 \A o \in 1..Len(options) :
                     /\ toLowerCase(options[o].value) \notin Selections(trim(entry.value.s))
                     /\ toLowerCase(options[o].label) \notin Selections(trim(entry.value.s))
          [] entry.type \in {"select", "multi-select"} ->
                 entry.el # 0
                 /\ PriorityOption(cur[entry.el].options, trim(entry.value.s)) = 0
          [] entry.type = "custom-dropdown" ->
                 \A o \in 1..Len(options) :
                     ~includes(toLowerCase(options[o].label), valueStr)
          [] OTHER -> FALSE

\* C13: a selection fill with a non-empty value that matches no option
\* returns false, and so does a fill on a type that is not handled
C13_NoMatchReturnsFalse ==
    \A k \in 1..Len(fillLog) :
        LET entry == fillLog[k]
        IN  /\ (/\ entry.value.kind = "string"
                /\ trim(entry.value.s) # ""
                /\ NoOptionMatches(entry)) => ~entry.returns
            /\ entry.type \notin HandledTypes => ~entry.returns

(***************************************************************************)
(* Properties of the settle wait (specification SpecWait).                 *)
(***************************************************************************)
\* C14: the promise of waitForAutofillComplete never rejects, is resolved in
\* the end, and is pending no longer once a poll tick has found maxWaitTime
\* elapsed
C14_AlwaysResolves ==
    /\ [](wait.state # "rejected")
    /\ [](wait.elapsed >= MaxWaitTime => wait.state # "pending")
    /\ <>(wait.state = "resolved")

(***************************************************************************)
(* Properties of the dropdown expansion (specification SpecExpand).        *)
(***************************************************************************)
\* C15: the promise of expandAllDropdowns is never rejected, resolve() is
\* called at most once, the promise is resolved whenever the fallback timer
\* has fired or has been cleared, and it is resolved in the end
C15_ResolvesOnce ==
    /\ [](expand.state # "rejected" /\ expand.resolves <= 1)
    /\ [](expand.timer \in {"fired", "cleared"} => expand.state = "resolved")
    /\ [](expand.state = "resolved" <=> expand.resolves = 1)
    /\ <>(expand.state = "resolved")

\* the timer resolved a promise that saw no menu and no click target
C15_Witness ==
    /\ expand.state = "resolved"
    /\ expand.timer = "fired"
    /\ expand.clicked = 0
    /\ page.menus = 0

(***************************************************************************)
(* Properties of the returned descriptors (specification Spec).            *)
(***************************************************************************)
\* a returned custom-dropdown descriptor without options, for a widget from
\* which no option can be extracted, expanded or not
Optionless(f) ==
    /\ f.type = "custom-dropdown"
    /\ f.options = <<>>
    /\ extractCustomDropdownOptions(doc, IF doc[f.el].parent # 0 THEN doc[f.el].parent
                                        ELSE f.el) = <<>>

\* C16: every custom-dropdown descriptor returned without options carries a
\* non-empty description, whichever pass recorded the element first
C16_OptionlessDescribed ==
    \A k \in 1..Len(returned) :
        ~returned[k].threw =>
            \A i \in 1..Len(returned[k].fields) :
                Optionless(returned[k].fields[i]) => returned[k].fields[i].description # ""

\* the enabled radio controls of d that carry the name, in document order
RadiosNamed(d, name) == Matching(d, LAMBDA e : IsGroupedRadio(e) /\ e.name = name)

\* the names shared by enabled radio controls of which exactly one is checked
OneCheckedNames(d) ==
    {name \in {d[i].name : i \in {i \in 1..Len(d) : IsGroupedRadio(d[i])}} :
        Cardinality({i \in 1..Len(d) :
                        IsGroupedRadio(d[i]) /\ d[i].name = name /\ d[i].checked}) = 1}

\* the radio-group descriptors of fs for the name
GroupsNamed(fs, name) == {g \in 1..Len(fs) : fs[g].type = "radio-group" /\ fs[g].name = name}

\* C17: for every name shared by N enabled radio controls with exactly one
\* checked, a returned array holds exactly one radio-group descriptor for the
\* name, with one option per control in document order and with selected set
\* on the checked control's option only
C17_OneGroupPerName ==
    \A k \in Returned :
        \A name \in OneCheckedNames(doc) :
            LET fs == returned[k].fields
                radios == RadiosNamed(doc, name)
            IN  /\ Cardinality(GroupsNamed(fs, name)) = 1
                /\ \A g \in GroupsNamed(fs, name) :
                      /\ Len(fs[g].options) = Len(radios)
                      /\ \A o \in 1..Len(radios) :
                            /\ fs[g].options[o].element = radios[o]
                            /\ fs[g].options[o].selected = doc[radios[o]].checked
                      /\ Cardinality({o \in 1..Len(fs[g].options) :
                                         fs[g].options[o].selected}) = 1

\* a scan returned the group of three radios of one name, one of them checked
C17_Witness ==
    /\ pc = "idle"
    /\ \E k \in Returned :
          \E name \in OneCheckedNames(doc) :
             /\ Len(RadiosNamed(doc, name)) = NElems
             /\ GroupsNamed(returned[k].fields, name) # {}

\* C18: every radio-group or checkbox-group descriptor of a returned array has
\* at least two member options
C18_GroupsOfTwo ==
    \A k \in Returned :
        \A i \in 1..Len(returned[k].fields) :
            returned[k].fields[i].isGroup => Len(returned[k].fields[i].options) >= 2

\* C20: in every descriptor of a returned array no two entries of options have
\* the same (value, label) pair
C20_NoDuplicateOptions ==
    \A k \in Returned :
        \A i \in 1..Len(returned[k].fields) :
            LET options == returned[k].fields[i].options
            IN  \A a, b \in 1..Len(options) :
                    (options[a].value = options[b].value
                     /\ options[a].label = options[b].label) => a = b

(***************************************************************************)
(* Properties of the filtered scan (specification SpecFill).               *)
(***************************************************************************)
\* the value the document holds for a descriptor is empty: no member checked
\* for a group, not checked for a checkbox or radio, nothing chosen for a
\* select, no text for the others
LiveEmpty(d, f) ==
    IF f.isGroup THEN \A o \in 1..Len(f.options) : ~d[f.options[o].element].checked
    ELSE IF f.type \in {"checkbox", "radio"} THEN ~d[f.el].checked
    ELSE IF d[f.el].tag = "select" THEN SelectValue(d[f.el]) = ""
    ELSE IF f.type = "custom-dropdown"
    THEN InnerInput(d, f.el) = 0 \/ trim(d[InnerInput(d, f.el)].value) = ""
    ELSE trim(d[f.el].value) = ""

\* what identifies a descriptor across two scans of one document
FieldKey(f) == <<f.type, f.el, f.name, [o \in 1..Len(f.options) |-> f.options[o].value]>>

\* the filtered scan has just returned and nothing has been filled since
JustFiltered ==
    /\ filterEmpty
    /\ returned # <<>>
    /\ ~returned[Len(returned)].threw
    /\ pc = "ai" \/ returned[Len(returned)].fields = <<>>

\* C19: with filterEmpty = true the scan returns exactly the merged descriptors
\* that are enabled and whose value in the document is empty
C19_ExactlyTheEmpty ==
    JustFiltered =>
        \E r \in {detectFormFields(doc, fieldIdCounter, FALSE)} :
            {FieldKey(returned[Len(returned)].fields[i]) :
                i \in 1..Len(returned[Len(returned)].fields)}
            = {FieldKey(r.fields[i]) :
                  i \in {i \in 1..Len(r.fields) :
                            ~r.fields[i].disabled /\ LiveEmpty(doc, r.fields[i])}}

(***************************************************************************)
(* Properties of the fill sequence beside the page's autofill              *)
(* (specification SpecFill).                                                *)
(***************************************************************************)
\* C21: no fill of the batch changes the value of a control into which the
\* page's autofill has written
C21_AutofillKept ==
    \A k \in 1..Len(fillLog) :
        \A i \in page.wrote : fillLog[k].after[i].value = fillLog[k].before[i].value

\* C22: a step resolves the settle wait only when it ends in a state without
\* pending layer and without visible spinner, or when the poll tick has found
\* maxWaitTime elapsed
C22_ResolvesWithoutIndicator ==
    [][(wait.state # "resolved" /\ wait'.state = "resolved")
          => (checkUIState(page') \/ wait'.elapsed >= MaxWaitTime)]_vars

\* the wait was pending and has been resolved before the ceiling
C22_Witness ==
    /\ wait.state = "resolved"
    /\ wait.elapsed > 0
    /\ wait.elapsed < MaxWaitTime
    /\ page.wrote # {}

(***************************************************************************)
(* Properties of the expansion loop (specification SpecExtract).           *)
(***************************************************************************)
\* C23: the attempts made are a prefix of Space, Enter, ArrowDown, click; no
\* attempt follows one after which the extraction returned options; the final
\* extraction is made once, exactly when all four attempts have failed
C23_AttemptsInOrder ==
    /\ Len(extract.attempts) <= 4
    /\ \A k \in 1..Len(extract.attempts) :
          /\ extract.attempts[k].method = ExpansionMethods[k]
          /\ k < Len(extract.attempts) => ~extract.attempts[k].found
    /\ extract.state = "trying" => \A k \in 1..Len(extract.attempts) :
                                       ~extract.attempts[k].found
    /\ extract.finals = IF /\ extract.state = "done"
                           /\ Len(extract.attempts) = 4
                           /\ ~extract.attempts[4].found
                        THEN 1 ELSE 0

\* the third attempt opened the menu and ended the loop
C23_Witness ==
    /\ extract.state = "done"
    /\ Len(extract.attempts) = 3
    /\ extract.attempts[3].found
    /\ extract.options # <<>>

(***************************************************************************)
(* Properties of the custom-dropdown fills (specification SpecFill).       *)
(***************************************************************************)
\* C24: in one custom-dropdown fill the options are clicked by the watcher or
\* by the fallback timer, never by both
C24_OnePathClicks ==
    \A k \in 1..Len(drops.fills) :
        ~(/\ \E c \in 1..Len(drops.fills[k].clicks) :
                drops.fills[k].clicks[c].path = "watcher"
          /\ \E c \in 1..Len(drops.fills[k].clicks) :
                drops.fills[k].clicks[c].path = "timer")

\* C25: every option click of a custom-dropdown fill lands on an option of
\* the widget that this fill has activated
C25_ClicksOwnOptions ==
    \A k \in 1..Len(drops.fills) :
        \A c \in 1..Len(drops.fills[k].clicks) :
            drops.fills[k].clicks[c].owner = drops.fills[k].container


\* C26: every detectFormFields or fillForm message gets exactly one response:
\* while its handler runs nothing has been sent yet, and once the handler is over (on the success path, on the early
\* exit for no empty fields, or after a failed step) sendResponse has been
\* called once and only once
C26_ExactlyOneResponse ==
    /\ sent \in {0, 1}
    /\ pc # "idle" => sent = 0
    /\ (pc = "idle" /\ returned # <<>>) => sent = 1

\* a fillForm message whose scan failed has been answered with the general error
C26_Witness ==
    /\ pc = "idle"
    /\ sent = 1
    /\ response = GeneralError


\* the responses processField has returned in operation o, with their fields
Answers(o) == 1..Len(worker.ops[o].responses)

\* C27: processField always returns an AIResponse: it makes at most three
\* passes for a required field and exactly one for an optional field, and
\* the output returned for a required field is never empty, "null" or
\* "undefined"
C27_RequiredAnswered ==
    \A o \in Ops :
        /\ (worker.ops[o].pc = "done" /\ ~worker.ops[o].threw)
              => Len(worker.ops[o].responses) = Len(worker.ops[o].fields)
        /\ \A k \in Answers(o) :
              /\ worker.ops[o].responses[k].fieldId = worker.ops[o].fields[k].id
              /\ IF worker.ops[o].fields[k].required
                 THEN /\ worker.ops[o].passes[k] \in 1..3
                      /\ worker.ops[o].responses[k].output \notin {"", "null", "undefined"}
                 ELSE worker.ops[o].passes[k] = 1

\* the sessions operation o made that have not been destroyed
Undestroyed(o) == {s \in worker.live : worker.owner[s] = o}

\* C28: when processFormFields has returned or thrown (here with no other
\* operation about), every session it made has been destroyed and the
\* service's current session is none
C28_SessionsDestroyed ==
    \A o \in Ops :
        (worker.ops[o].pc = "done" /\ \A p \in Ops \ {o} : worker.ops[p].pc = "idle")
            => Undestroyed(o) = {} /\ worker.currentSession = 0

\* C29: from the moment an operation's base session is made until the
\* operation is over, that session exists and is the service's current one
C29_BaseStaysCurrent ==
    \A o \in Ops :
        (worker.ops[o].pc \in {"clone", "prompt", "cleanup"} /\ worker.ops[o].base # 0)
            => worker.currentSession = worker.ops[o].base /\ worker.ops[o].base \in worker.live


\* the enabled checkboxes of fieldset f in the document
FieldsetBoxes(f) ==
    {i \in 1..Len(doc) : IsCheckbox(doc[i]) /\ doc[i].fieldset = f /\ ~doc[i].disabled}

\* the elements a group descriptor stands for
GroupElements(field) == {field.options[k].element : k \in 1..Len(field.options)}

\* C30: checkboxes of different fieldsets are never put into the same
\* checkbox-group descriptor, and each fieldset with two or more enabled
\* checkboxes has a group of its own in an unfiltered scan, also when the
\* fieldsets have the same (or no) class and id
C30_GroupsPerFieldset ==
    \A s \in Returned :
        /\ \A g \in 1..Len(returned[s].fields) :
              returned[s].fields[g].type = "checkbox-group"
                 => \A a, b \in GroupElements(returned[s].fields[g]) :
                       (doc[a].fieldset # 0 /\ doc[b].fieldset # 0)
                          => doc[a].fieldset = doc[b].fieldset
        /\ (s = 1 /\ Len(doc) = 4)
              => \A f \in 1..Len(Fieldsets) :
                    Cardinality(FieldsetBoxes(f)) >= 2
                       => \E g \in 1..Len(returned[s].fields) :
                             /\ returned[s].fields[g].type = "checkbox-group"
                             /\ GroupElements(returned[s].fields[g]) = FieldsetBoxes(f)

====
